---- MODULE Spec2Model ----
(***************************************************************************)
(* Device-trust login protocol of the Alfred web application: the device  *)
(* identity store, the rate-limit classifier, the login orchestrator      *)
(* (LoginPage.handleLogin) with the auth provider and the route guards,   *)
(* and the device verification poller (DeviceVerificationPage).           *)
(***************************************************************************)
EXTENDS Integers, Sequences, FiniteSets, TLC

(***************************************************************************)
(* JavaScript values.  null / undefined of a string-valued expression is  *)
(* the string NULL.  A JavaScript number is a tagged record whose value   *)
(* is kept in tenths (v10), so that Math.round has something to do.       *)
(***************************************************************************)
NULL == "null"

JsUndefined == [t |-> "undefined", v10 |-> 0]

JsNaN == [t |-> "nan", v10 |-> 0]

JsInfinity == [t |-> "inf", v10 |-> 0]

JsNum(n) == [t |-> "number", v10 |-> n * 10]

JsTenths(n10) == [t |-> "number", v10 |-> n10]

JsText == [t |-> "string", v10 |-> 0]

\* typeof x === "number" && Number.isFinite(x)
IsFiniteNumber(x) == x.t = "number"

\* Math.round: to the nearest integer, halves towards +Infinity
MathRound(n10) == (n10 + 5) \div 10

Max(a, b) == IF a >= b THEN a ELSE b

\* a ?? b on string-valued operands
Coalesce(a, b) == IF a = NULL THEN b ELSE a

\* strings that String.prototype.trim() turns into ""
BlankStrings == {"", " "}

(***************************************************************************)
(* Device identity store (shared/utils/device).                           *)
(***************************************************************************)
DeviceName == "Mozilla/5.0 - Linux x86_64 - 1920x1080"

\* values crypto.randomUUID() may return
GeneratedIds == {"gen-1", "gen-2"}

\* getDeviceId(): the stored identifier, or null
getDeviceId(avail, stored) ==
  IF ~avail THEN NULL
  ELSE IF stored # NULL /\ stored \notin BlankStrings THEN stored ELSE NULL

ensureDeviceId_memoryFallback(avail, writable, stored, generated) ==
  IF ~avail THEN [ret |-> generated, stored |-> stored, threw |-> FALSE]
  ELSE IF getDeviceId(avail, stored) # NULL
       THEN [ret |-> getDeviceId(avail, stored), stored |-> stored, threw |-> FALSE]
       ELSE IF writable
            THEN [ret |-> generated, stored |-> generated, threw |-> FALSE]
            ELSE [ret |-> NULL, stored |-> stored, threw |-> TRUE]

ensureDeviceId_regenerates(avail, writable, stored, generated) ==
  IF ~avail THEN [ret |-> NULL, stored |-> stored, threw |-> FALSE]
  ELSE IF writable
       THEN [ret |-> generated, stored |-> generated, threw |-> FALSE]
       ELSE [ret |-> NULL, stored |-> stored, threw |-> TRUE]

\* ensureDeviceId(): the stored identifier, or a generated one that is
\* written to localStorage; setItem throws when the write is rejected.
ensureDeviceId(avail, writable, stored, generated) ==
  IF ~avail THEN [ret |-> NULL, stored |-> stored, threw |-> FALSE]
  ELSE IF getDeviceId(avail, stored) # NULL
       THEN [ret |-> getDeviceId(avail, stored), stored |-> stored, threw |-> FALSE]
       ELSE IF writable
            THEN [ret |-> generated, stored |-> generated, threw |-> FALSE]
            ELSE [ret |-> NULL, stored |-> stored, threw |-> TRUE]

\* collectDeviceMetadata(): ensureDeviceId() plus the descriptive fields; the
\* write of the metadata snapshot is wrapped in try/catch and cannot throw.
collectDeviceMetadata(avail, writable, stored, generated) ==
  LET e == ensureDeviceId(avail, writable, stored, generated)
  IN  [deviceId   |-> e.ret,
       deviceName |-> IF avail THEN DeviceName ELSE "Dispositivo",
       stored     |-> e.stored,
       threw      |-> e.threw]

(***************************************************************************)
(* Rate-limit classifier (shared/utils/errors).                           *)
(***************************************************************************)
DEFAULT_RATE_LIMIT_MESSAGE == "Detectamos muitas requisicoes em sequencia."

Digits == <<"0", "1", "2", "3", "4", "5", "6", "7", "8", "9">>

IsDigit(c) == \E i \in 1..10 : Digits[i] = c

DigitValue(c) == (CHOOSE i \in 1..10 : Digits[i] = c) - 1

RECURSIVE SkipSpaces(_)
SkipSpaces(s) ==
  IF s # <<>> /\ Head(s) = " " THEN SkipSpaces(Tail(s)) ELSE s

RECURSIVE DigitPrefix(_)
DigitPrefix(s) ==
  IF s # <<>> /\ IsDigit(Head(s)) THEN <<Head(s)>> \o DigitPrefix(Tail(s)) ELSE <<>>

RECURSIVE DigitsValue(_, _)
DigitsValue(s, acc) ==
  IF s = <<>> THEN acc ELSE DigitsValue(Tail(s), acc * 10 + DigitValue(Head(s)))

\* Number.parseInt(text, 10) on a sequence of characters
ParseInt(chars) ==
  LET s    == SkipSpaces(chars)
      neg  == s # <<>> /\ Head(s) = "-"
      body == IF s # <<>> /\ Head(s) \in {"-", "+"} THEN Tail(s) ELSE s
      ds   == DigitPrefix(body)
  IN  IF ds = <<>> THEN JsNaN
      ELSE JsNum(IF neg THEN 0 - DigitsValue(ds, 0) ELSE DigitsValue(ds, 0))

\* new RateLimitError(message, retryAfterSeconds)
RateLimitError(message, retryAfterSeconds) ==
  [isRateLimit       |-> TRUE,
   message           |-> message,
   retryAfterSeconds |->
     IF IsFiniteNumber(retryAfterSeconds)
     THEN JsNum(Max(0, MathRound(retryAfterSeconds.v10)))
     ELSE JsUndefined]

\* the null result of toRateLimitError
NoRateLimit == [isRateLimit |-> FALSE, message |-> NULL, retryAfterSeconds |-> JsUndefined]

\* extractRetryAfterFromObject(source): source is [isObject, retryAfterSeconds]
extractRetryAfterFromObject(source) ==
  IF ~source.isObject THEN JsUndefined
  ELSE IF IsFiniteNumber(source.retryAfterSeconds) THEN source.retryAfterSeconds
  ELSE JsUndefined

\* extractRetryAfterFromString(value): value is [blank, parses, parsed]
extractRetryAfterFromString(value) ==
  IF value.blank THEN JsUndefined
  ELSE IF value.parses THEN extractRetryAfterFromObject(value.parsed)
  ELSE JsUndefined

\* extractRetryAfterHeader(response)
extractRetryAfterHeader(response) ==
  IF ~response.present THEN JsUndefined
  ELSE IF ~response.hasHeader \/ response.header = <<>> THEN JsUndefined
  ELSE LET numeric == ParseInt(response.header)
       IN  IF IsFiniteNumber(numeric) THEN numeric ELSE JsUndefined

formatDurationPtBr_alwaysPlural(seconds) ==
  IF seconds.t = "undefined" \/ ~IsFiniteNumber(seconds) \/ seconds.v10 <= 0 THEN NULL
  ELSE LET rounded == Max(1, MathRound(seconds.v10))
           minutes == rounded \div 60
           remainingSeconds == rounded % 60
           minutesPart == ToString(minutes) \o " minutos"
           secondsPart == ToString(remainingSeconds) \o " segundos"
       IN  IF rounded < 60
           THEN ToString(rounded) \o " segundos"
           ELSE IF minutes > 0 /\ remainingSeconds > 0 THEN minutesPart \o " e " \o secondsPart
           ELSE IF minutes > 0 THEN minutesPart
           ELSE IF remainingSeconds > 0 THEN secondsPart
           ELSE ""

\* formatDurationPtBr(seconds)
formatDurationPtBr(seconds) ==
  IF seconds.t = "undefined" \/ ~IsFiniteNumber(seconds) \/ seconds.v10 <= 0 THEN NULL
  ELSE LET rounded == Max(1, MathRound(seconds.v10))
           minutes == rounded \div 60
           remainingSeconds == rounded % 60
           minutesPart == ToString(minutes) \o " minuto" \o (IF minutes = 1 THEN "" ELSE "s")
           secondsPart == ToString(remainingSeconds) \o " segundo"
                            \o (IF remainingSeconds = 1 THEN "" ELSE "s")
       IN  IF rounded < 60
           THEN ToString(rounded) \o " segundo" \o (IF rounded = 1 THEN "" ELSE "s")
           ELSE IF minutes > 0 /\ remainingSeconds > 0 THEN minutesPart \o " e " \o secondsPart
           ELSE IF minutes > 0 THEN minutesPart
           ELSE IF remainingSeconds > 0 THEN secondsPart
           ELSE ""

\* toRateLimitError(error): error is [status, message, response, details]
toRateLimitError(error) ==
  IF error.isNull \/ error.status # 429 THEN NoRateLimit
  ELSE LET m0 == Coalesce(error.message, DEFAULT_RATE_LIMIT_MESSAGE)
           m1 == IF m0 \in BlankStrings THEN DEFAULT_RATE_LIMIT_MESSAGE ELSE m0
           fromHeader == extractRetryAfterHeader(error.response)
           bodyIsObject == error.response.present /\ error.response.body.isObject
           payloadMessage == error.response.body.error
           m2 == IF bodyIsObject /\ payloadMessage # NULL /\ payloadMessage \notin BlankStrings
                 THEN payloadMessage ELSE m1
           afterBody == IF bodyIsObject /\ fromHeader.t = "undefined"
                        THEN extractRetryAfterFromObject(error.response.body)
                        ELSE fromHeader
           afterDetails == IF afterBody.t = "undefined"
                           THEN IF error.details.isString
                                THEN extractRetryAfterFromString(error.details)
                                ELSE extractRetryAfterFromObject(error.details.parsed)
                           ELSE afterBody
       IN  RateLimitError(m2, afterDetails)

\* formatRateLimitError(error, baseMessage)
formatRateLimitError(error, baseMessage) ==
  LET waitTime == formatDurationPtBr(error.retryAfterSeconds)
      prefix   == IF error.message # "" /\ error.message # DEFAULT_RATE_LIMIT_MESSAGE
                  THEN error.message ELSE baseMessage
  IN  IF waitTime = NULL \/ waitTime = ""
      THEN prefix \o " Tente novamente em instantes."
      ELSE prefix \o " Tente novamente em " \o waitTime \o "."

(***************************************************************************)
(* Table filtering and sorting (features/dashboard/utils/tableFilters).   *)
(* A cell value is null, a string (kept as its characters), a number or   *)
(* a boolean; a text is a sequence of characters.                         *)
(***************************************************************************)
Cell(t, s, n, b) == [t |-> t, s |-> s, n |-> n, b |-> b]

\* null, and undefined: a key the row does not have
NullCell == Cell("null", <<>>, 0, FALSE)

\* String.prototype.toLowerCase over the letters the model uses
toLowerCase(s) ==
  [i \in 1..Len(s) |->
     CASE s[i] = "A" -> "a" [] s[i] = "B" -> "b" [] s[i] = "D" -> "d"
       [] s[i] = "N" -> "n" [] s[i] = "S" -> "s" [] OTHER -> s[i]]

\* String.prototype.trim
trim(s) ==
  LET kept == {i \in 1..Len(s) : s[i] # " "}
  IN  IF kept = {} THEN <<>>
      ELSE SubSeq(s, CHOOSE i \in kept : \A j \in kept : i <= j,
                     CHOOSE i \in kept : \A j \in kept : i >= j)

\* String(n) and n.toLocaleString("pt-BR") of a whole number below 1000
numberText(n) ==
  LET d(k) == Digits[k + 1]
  IN  IF n < 10 THEN <<d(n)>>
      ELSE IF n < 100 THEN <<d(n \div 10), d(n % 10)>>
      ELSE <<d(n \div 100), d((n \div 10) % 10), d(n % 10)>>

\* toComparableNumber(value): a number cell, or NullCell for null
toComparableNumber(value) ==
  IF value.t = "number" THEN value
  ELSE IF value.t = "string"
  THEN LET trimmed == trim(value.s)
       IN  IF trimmed = <<>> THEN NullCell
           ELSE IF \A i \in 1..Len(trimmed) : IsDigit(trimmed[i])
           THEN Cell("number", <<>>, DigitsValue(trimmed, 0), FALSE)
           ELSE NullCell
  ELSE NullCell

\* parseBooleanValue(value)
parseBooleanValue(value) ==
  IF value.t = "boolean" THEN value.b
  ELSE IF value.t = "number" THEN value.n # 0
  ELSE IF value.t = "string"
  THEN toLowerCase(trim(value.s)) \in
         {<<"t", "r", "u", "e">>, <<"1">>, <<"s", "i", "m">>, <<"y", "e", "s">>,
          <<"a", "t", "i", "v", "o">>, <<"a", "t", "i", "v", "a", "d", "o">>, <<"o", "n">>}
  ELSE FALSE

\* a column the sort key does not name: targetColumn is undefined
NoColumn == [key |-> NULL, is_toggle |-> FALSE]

\* formatTableCellValue(value, column) with formatLocalizedString, for
\* columns that are neither whatsapp nor date columns
formatTableCellValue(value, column) ==
  IF value.t = "null" THEN <<"-">>
  ELSE IF column.is_toggle
  THEN IF parseBooleanValue(value)
       THEN <<"D", "e", "s", "a", "t", "i", "v", "a", "d", "o">>
       ELSE <<"A", "t", "i", "v", "a", "d", "o">>
  ELSE IF value.t = "string" THEN value.s
  ELSE IF value.t = "number" THEN numberText(value.n)
  ELSE IF value.b THEN <<"S", "i", "m">> ELSE <<"N", "a", "o">>

\* compareValues(a, b); localeCompare with sensitivity "base" orders texts
\* character by character: punctuation, digits, then letters without case
compareValues(a, b) ==
  LET rank(c) == CHOOSE i \in 1..25 :
                   <<" ", "-", "0", "1", "2", "3", "4", "5", "6", "7", "8", "9", "a", "b", "d",
                     "e", "f", "i", "l", "n", "o", "r", "s", "t", "u">>[i] = c
      RECURSIVE localeCompare(_, _)
      localeCompare(x, y) ==
        IF x = <<>> /\ y = <<>> THEN 0
        ELSE IF x = <<>> THEN -1
        ELSE IF y = <<>> THEN 1
        ELSE IF rank(x[1]) < rank(y[1]) THEN -1
        ELSE IF rank(x[1]) > rank(y[1]) THEN 1
        ELSE localeCompare(Tail(x), Tail(y))
      String(v) == IF v.t = "string" THEN v.s
                   ELSE IF v.t = "number" THEN numberText(v.n)
                   ELSE IF v.t = "boolean"
                   THEN (IF v.b THEN <<"t", "r", "u", "e">> ELSE <<"f", "a", "l", "s", "e">>)
                   ELSE <<"n", "u", "l", "l">>
      Number(v) == IF v.b THEN 1 ELSE 0
      numericA == toComparableNumber(a)
      numericB == toComparableNumber(b)
  IN  IF a = b THEN 0
      ELSE IF a.t = "null" THEN 1
      ELSE IF b.t = "null" THEN -1
      ELSE IF a.t = "number" /\ b.t = "number" THEN a.n - b.n
      ELSE IF a.t = "string" /\ b.t = "string"
      THEN localeCompare(toLowerCase(a.s), toLowerCase(b.s))
      ELSE IF a.t = "boolean" /\ b.t = "boolean" THEN Number(a) - Number(b)
      ELSE IF numericA.t # "null" /\ numericB.t # "null" THEN numericA.n - numericB.n
      ELSE localeCompare(toLowerCase(String(a)), toLowerCase(String(b)))

\* getComparableValue(value, column, deps)
getComparableValue(value, column) ==
  IF column.is_toggle
  THEN Cell("number", <<>>, IF parseBooleanValue(value) THEN 1 ELSE 0, FALSE)
  ELSE IF value.t \in {"number", "boolean"} THEN value
  ELSE IF value.t = "string"
  THEN IF toComparableNumber(value).t # "null" THEN toComparableNumber(value)
       ELSE Cell("string", toLowerCase(value.s), 0, FALSE)
  ELSE IF column # NoColumn
  THEN Cell("string", toLowerCase(formatTableCellValue(value, column)), 0, FALSE)
  ELSE Cell("string", <<>>, 0, FALSE)

filterAndSortRows_sortsInPlace(rows, objects, visibleColumns, toggleColumnKey, options) ==
  LET field(ref, key) == IF key \in DOMAIN objects[ref] THEN objects[ref][key] ELSE NullCell
      \* Array.prototype.sort: stable, by insertion
      sort(seq, cmp(_, _)) ==
        LET RECURSIVE upTo(_)
            upTo(n) ==
              IF n = 0 THEN <<>>
              ELSE LET s == upTo(n - 1)
                       before == {0} \cup {i \in 1..Len(s) : cmp(s[i], seq[n]) <= 0}
                       j == CHOOSE i \in before : \A k \in before : i >= k
                   IN  SubSeq(s, 1, j) \o <<seq[n]>> \o SubSeq(s, j + 1, Len(s))
        IN  upTo(Len(seq))
      targetColumn == IF \E i \in 1..Len(visibleColumns) : visibleColumns[i].key = options.sortKey
                      THEN visibleColumns[CHOOSE i \in 1..Len(visibleColumns) :
                                            visibleColumns[i].key = options.sortKey]
                      ELSE NoColumn
      compare(x, y) ==
        LET comparison == compareValues(getComparableValue(field(x, options.sortKey), targetColumn),
                                        getComparableValue(field(y, options.sortKey), targetColumn))
        IN  IF options.sortDirection = "asc" THEN comparison ELSE 0 - comparison
  IN  IF options.sortKey # NULL
      THEN [rows |-> sort(rows, compare), objects |-> objects, result |-> sort(rows, compare),
            sameArray |-> TRUE]
      ELSE [rows |-> rows, objects |-> objects, result |-> rows, sameArray |-> FALSE]

\* filterAndSortRows(rows, visibleColumns, toggleColumnKey, options, deps):
\* the rows array and the row objects after the call, the returned array and
\* whether it is the rows array itself
filterAndSortRows(rows, objects, visibleColumns, toggleColumnKey, options) ==
  LET field(ref, key) == IF key \in DOMAIN objects[ref] THEN objects[ref][key] ELSE NullCell
      \* Array.prototype.filter
      filter(seq, Pass(_)) ==
        LET RECURSIVE upTo(_)
            upTo(n) == IF n = 0 THEN <<>>
                       ELSE IF Pass(seq[n]) THEN Append(upTo(n - 1), seq[n]) ELSE upTo(n - 1)
        IN  upTo(Len(seq))
      \* Array.prototype.sort: stable, by insertion
      sort(seq, cmp(_, _)) ==
        LET RECURSIVE upTo(_)
            upTo(n) ==
              IF n = 0 THEN <<>>
              ELSE LET s == upTo(n - 1)
                       before == {0} \cup {i \in 1..Len(s) : cmp(s[i], seq[n]) <= 0}
                       j == CHOOSE i \in before : \A k \in before : i >= k
                   IN  SubSeq(s, 1, j) \o <<seq[n]>> \o SubSeq(s, j + 1, Len(s))
        IN  upTo(Len(seq))
      normalizedSearch == toLowerCase(trim(options.searchTerm))
      includes(text, part) ==
        \E i \in 1..(Len(text) - Len(part) + 1) : SubSeq(text, i, i + Len(part) - 1) = part
      copied == rows
      byStatus(ref) ==
        LET isInactive == parseBooleanValue(field(ref, toggleColumnKey))
        IN  IF options.statusFilter = "inactive" THEN isInactive ELSE ~isInactive
      bySearch(ref) ==
        \E i \in 1..Len(visibleColumns) :
          includes(toLowerCase(formatTableCellValue(field(ref, visibleColumns[i].key),
                                                    visibleColumns[i])),
                   normalizedSearch)
      filtered == IF toggleColumnKey # NULL /\ options.statusFilter # "all"
                  THEN filter(copied, byStatus) ELSE copied
      searched == IF normalizedSearch # <<>> THEN filter(filtered, bySearch) ELSE filtered
      targetColumn == IF \E i \in 1..Len(visibleColumns) : visibleColumns[i].key = options.sortKey
                      THEN visibleColumns[CHOOSE i \in 1..Len(visibleColumns) :
                                            visibleColumns[i].key = options.sortKey]
                      ELSE NoColumn
      compare(x, y) ==
        LET comparison == compareValues(getComparableValue(field(x, options.sortKey), targetColumn),
                                        getComparableValue(field(y, options.sortKey), targetColumn))
        IN  IF options.sortDirection = "asc" THEN comparison ELSE 0 - comparison
      working == IF options.sortKey # NULL THEN sort(searched, compare) ELSE searched
  IN  [rows |-> rows, objects |-> objects, result |-> working, sameArray |-> FALSE]

\* no call yet
NoArgs == [visibleColumns |-> <<>>, toggleColumnKey |-> NULL,
           options |-> [searchTerm |-> <<>>, statusFilter |-> "all", sortKey |-> NULL,
                        sortDirection |-> "asc"]]

NoResult == [returned |-> FALSE, rows |-> <<>>, sameArray |-> FALSE]

(***************************************************************************)
(* State.                                                                 *)
(***************************************************************************)
VARIABLES
  \* environment of one browser profile
  lsAvailable,       \* isBrowser(): window.localStorage exists
  lsWritable,        \* localStorage.setItem succeeds (FALSE: it throws)
  lsDeviceId,        \* value stored under DEVICE_ID_STORAGE_KEY, or NULL
  umRole,            \* user.user_metadata.role of the account, or NULL
  amRole,            \* user.app_metadata.role of the account, or NULL
  \* identity provider client and AuthProvider
  supaSession,       \* session held by the supabase client, or NULL
  authQueue,         \* onAuthStateChange notifications not yet delivered
  getSessionPending, \* the getSession() promise of AuthProvider is unresolved
  ctxSession,        \* AuthProvider state: session
  ctxLoading,        \* AuthProvider state: loading
  \* router
  route,             \* location.pathname
  locState,          \* location.state
  \* LoginPage and the run of handleLogin
  pc,                \* suspension point handleLogin is at
  loading,
  errorMsg,
  infoMsg,
  destination,
  deviceMetadata,    \* result of collectDeviceMetadata() in handleLogin
  securityError,     \* error result of registerLoginEvent
  decision,          \* TrustDecision received by the attempt
  authOk,            \* signInWithPassword succeeded in this attempt
  loginNavs,         \* navigate() calls made by handleLogin
  signOutCalls,      \* supabase.auth.signOut() calls made by handleLogin
  registerCalls,     \* registerLoginEvent requests dispatched
  \* backend and DeviceVerificationPage
  backendStatus,     \* status the backend holds for the device
  dvMounted,         \* "no": not yet rendered, "yes": on screen, "torn": unmounted
  dvCrashed,         \* an effect of the page threw
  dvDeviceId,        \* state: deviceId
  dvNextPath,        \* nextPath memo
  dvStatus,          \* state: status
  dvError,           \* state: error
  dvInfo,            \* state: info
  dvResendLoading,   \* state: resendLoading
  dvLogoutPending,   \* handleLogout awaits supabase.auth.signOut()
  pollTimerRef,      \* pollTimerRef.current (0: null)
  intervals,         \* ids of the intervals window.setInterval keeps running
  timersCreated,     \* window.setInterval calls so far
  inflight,          \* checkDeviceStatus calls awaiting their continuation
  redirectTimers,    \* pending setTimeout(navigate, 1500) callbacks
  pollerNavs,        \* navigate() calls made by those callbacks
  checkLog,          \* checkDeviceStatus requests dispatched
  approvedAt,        \* Len(checkLog) when a check first returned approved, else -1
  \* ConfirmDevicePage
  cfToken,           \* the token query parameter of the link, or NULL
  cfMounted,         \* "no", "yes", "torn"
  cfCancelled,       \* the cancelled flag of the effect closure
  cfStatus,          \* useState: status
  cfMessage,         \* useState: message
  cfCall,            \* the confirmDevice call of the effect
  cfRequests,        \* confirmDevice requests dispatched
  cfTimers,          \* pending setTimeout(navigate, SUCCESS_REDIRECT_DELAY) callbacks
  cfNavs,            \* navigate() calls made by those callbacks
  \* callers of the device store and of the backend functions
  callLog,           \* calls made so far, with what each returned or sent
  \* a caller of the rate-limit classifier
  rlError,           \* the error handed to toRateLimitError
  rlStage,           \* "input", "classified", "formatted"
  rlSignal,          \* what toRateLimitError returned
  rlText,            \* what formatRateLimitError returned
  \* a caller of filterAndSortRows
  tblRows,           \* the rows array: references to row objects, in order
  tblObjects,        \* the row objects, by reference
  tblArgs,           \* visibleColumns, toggleColumnKey and options of the call
  tblResult          \* what the call returned

envVars == <<lsAvailable, lsWritable, umRole, amRole>>

authVars == <<supaSession, authQueue, getSessionPending, ctxSession, ctxLoading>>

routerVars == <<route, locState>>

loginVars == <<pc, loading, errorMsg, infoMsg, destination, deviceMetadata,
               securityError, decision, authOk, loginNavs, signOutCalls, registerCalls>>

pollerVars == <<backendStatus, dvMounted, dvCrashed, dvDeviceId, dvNextPath, dvStatus, dvError,
                dvInfo, dvResendLoading, dvLogoutPending, pollTimerRef, intervals, timersCreated,
                inflight, redirectTimers, pollerNavs, checkLog, approvedAt>>

confirmVars == <<cfToken, cfMounted, cfCancelled, cfStatus, cfMessage, cfCall, cfRequests,
                 cfTimers, cfNavs>>

classifierVars == <<rlError, rlStage, rlSignal, rlText>>

tableVars == <<tblRows, tblObjects, tblArgs, tblResult>>

\* state of the components the login and verification pages do not touch
otherVars == <<confirmVars, callLog, classifierVars, tableVars>>

vars == <<envVars, lsDeviceId, authVars, routerVars, loginVars, pollerVars, otherVars>>

(***************************************************************************)
(* Values the environment supplies.                                       *)
(***************************************************************************)
Roles == {NULL, "admin", "user"}

StoredIds == {NULL, " ", "dev-A"}

SessionUser == "user"

NoState == [nextPath |-> NULL, message |-> NULL, deviceId |-> NULL]

NoDecision == [received |-> FALSE, status |-> NULL, requiresConfirmation |-> FALSE]

TrustDecisions ==
  { [received |-> TRUE, status |-> s, requiresConfirmation |-> r] :
      s \in {"approved", "pending", "unregistered"}, r \in BOOLEAN }

NoResponse == [present |-> FALSE, hasHeader |-> FALSE, header |-> <<>>,
               body |-> [isObject |-> FALSE, error |-> NULL, retryAfterSeconds |-> JsUndefined]]

NoDetails == [isString |-> FALSE, blank |-> FALSE, parses |-> FALSE,
              parsed |-> [isObject |-> FALSE, retryAfterSeconds |-> JsUndefined]]

NoError == [isNull |-> TRUE, status |-> 0, message |-> NULL,
            response |-> NoResponse, details |-> NoDetails]

\* status of an error that carries no numeric status
NoStatus == -1

\* 429 with Retry-After: 90 and a JSON body {error: "Limite excedido."}
ErrRate90 ==
  [isNull |-> FALSE, status |-> 429, message |-> "Edge Function returned a non-2xx status code",
   response |-> [present |-> TRUE, hasHeader |-> TRUE, header |-> <<"9", "0">>,
                 body |-> [isObject |-> TRUE, error |-> "Limite excedido.",
                           retryAfterSeconds |-> JsUndefined]],
   details |-> NoDetails]

\* 429 with nothing else
ErrRateBare ==
  [isNull |-> FALSE, status |-> 429, message |-> "", response |-> NoResponse, details |-> NoDetails]

\* a non-2xx failure
ErrServer ==
  [isNull |-> FALSE, status |-> 500, message |-> "Falha interna", response |-> NoResponse,
   details |-> NoDetails]

\* a transport failure without a status
ErrFetch ==
  [isNull |-> FALSE, status |-> NoStatus, message |-> "Failed to send a request to the Edge Function",
   response |-> NoResponse, details |-> NoDetails]

BackendErrors == {ErrRate90, ErrRateBare, ErrServer, ErrFetch}

MsgInvalidCredentials == "Invalid login credentials"

MsgLoginFallback == "Nao foi possivel realizar o login"

MsgCannotIdentify == "Nao conseguimos identificar este dispositivo. Verifique as permissoes do navegador e tente novamente."

MsgRegisterFallback == "Nao foi possivel registrar o novo login."

MsgUnexpectedResponse == "Resposta inesperada ao registrar o login."

MsgNeedConfirm == "Precisamos confirmar este dispositivo antes de liberar o acesso."

MsgLoginBase == "Muitas tentativas de login em sequencia."

MsgQuotaExceeded == "QuotaExceededError"

(***************************************************************************)
(* Router and route guards.                                               *)
(***************************************************************************)
\* roleFromUserMetadata ?? roleFromAppMetadata
sessionRole(um, am) == Coalesce(um, am)

\* PublicOnlyRoute (around /login): what it renders for the AuthProvider state
PublicOnlyRoute(session, isLoading, um, am) ==
  IF isLoading THEN "loader"
  ELSE IF session # NULL
       THEN IF sessionRole(um, am) = "admin" THEN "/admin" ELSE "/dashboard"
       ELSE "children"

\* ProtectedRoute: what it renders for the AuthProvider state
ProtectedRoute(session, isLoading, requiredRole, um, am) ==
  IF isLoading THEN "loader"
  ELSE IF session = NULL THEN "/login"
  ELSE IF requiredRole # NULL /\ sessionRole(um, am) # requiredRole THEN "/dashboard"
  ELSE "children"

\* requiredRole of the ProtectedRoute around a path
RequiredRole(path) == IF path = "/admin" THEN "admin" ELSE NULL

ProtectedPaths == {"/dashboard", "/admin", "/device-verification"}

TenantPaths == {"/dashboard", "/admin"}

\* what the router shows at the current location
Rendered ==
  IF route = "/login" THEN PublicOnlyRoute(ctxSession, ctxLoading, umRole, amRole)
  ELSE ProtectedRoute(ctxSession, ctxLoading, RequiredRole(route), umRole, amRole)

\* a tenant page (Dashboard or AdminPage) is on screen
TenantRendered == route \in TenantPaths /\ Rendered = "children"

\* AuthProvider: supabase.auth.getSession().then(...)
GetSessionThen ==
  /\ getSessionPending
  /\ getSessionPending' = FALSE
  /\ ctxSession' = supaSession
  /\ ctxLoading' = FALSE
  /\ UNCHANGED <<pollerVars, envVars, otherVars, lsDeviceId, supaSession, authQueue, routerVars, loginVars>>

\* AuthProvider: the onAuthStateChange callback
AuthStateChange ==
  /\ authQueue # <<>>
  /\ ctxSession' = Head(authQueue)
  /\ ctxLoading' = FALSE
  /\ authQueue' = Tail(authQueue)
  /\ UNCHANGED <<pollerVars, envVars, otherVars, lsDeviceId, supaSession, getSessionPending, routerVars, loginVars>>

\* <Navigate to=... replace /> rendered by PublicOnlyRoute
PublicOnlyRedirect ==
  /\ route = "/login"
  /\ Rendered \in TenantPaths
  /\ route' = Rendered
  /\ locState' = NoState
  /\ UNCHANGED <<pollerVars, envVars, otherVars, lsDeviceId, authVars, loginVars>>

clearPollTimer_nothing(ref, ivs) ==
  [ref |-> ref, ivs |-> ivs]

clearPollTimer_keepsInterval(ref, ivs) ==
  [ref |-> 0, ivs |-> ivs]

\* DeviceVerificationPage.clearPollTimer on pollTimerRef.current and the
\* browser's running intervals
clearPollTimer(ref, ivs) ==
  IF ref # 0 THEN [ref |-> 0, ivs |-> ivs \ {ref}] ELSE [ref |-> ref, ivs |-> ivs]

\* the DeviceVerificationPage leaves the screen: the cleanup of the polling
\* effect runs
UnmountVerification ==
  /\ dvMounted' = "torn"
  /\ pollTimerRef' = clearPollTimer(pollTimerRef, intervals).ref
  /\ intervals' = clearPollTimer(pollTimerRef, intervals).ivs

\* <Navigate to=... replace /> rendered by ProtectedRoute
ProtectedRedirect ==
  /\ route \in ProtectedPaths
  /\ Rendered \in {"/login", "/dashboard"}
  /\ route' = Rendered
  /\ locState' = NoState
  /\ IF dvMounted = "yes"
     THEN UnmountVerification
     ELSE UNCHANGED <<dvMounted, pollTimerRef, intervals>>
  /\ UNCHANGED <<envVars, otherVars, lsDeviceId, authVars, loginVars, backendStatus, dvCrashed, dvDeviceId,
                 dvNextPath, dvStatus, dvError, dvInfo, dvResendLoading, dvLogoutPending,
                 timersCreated, inflight, redirectTimers, pollerNavs, checkLog,
                 approvedAt>>

(***************************************************************************)
(* LoginPage.handleLogin.                                                 *)
(***************************************************************************)
loginDestination_adminByDefault(um, am) ==
  IF sessionRole(um, am) \in {"admin", NULL} THEN "/admin" ELSE "/dashboard"

\* const destination = role === "admin" ? "/admin" : "/dashboard"
loginDestination(um, am) ==
  IF sessionRole(um, am) = "admin" THEN "/admin" ELSE "/dashboard"

loginAfterCollect_alwaysRegisters(md) == "register"

loginAfterCollect_noDeviceCheck(md) ==
  IF md.threw THEN "catch" ELSE "register"

\* where handleLogin goes after collectDeviceMetadata(): into catch when it
\* threw, to the sign-out of the null-device branch, or on to registerLoginEvent
loginAfterCollect(md) ==
  IF md.threw THEN "catch"
  ELSE IF md.deviceId = NULL THEN "signOut"
  ELSE "register"

loginErrorMessage_unclassified(error) ==
  Coalesce(error.message, MsgRegisterFallback)

\* the message handleLogin shows for an error result of registerLoginEvent
loginErrorMessage(error) ==
  LET rateLimitError == toRateLimitError(error)
  IN  IF rateLimitError.isRateLimit
      THEN formatRateLimitError(rateLimitError, MsgLoginBase)
      ELSE Coalesce(error.message, MsgRegisterFallback)

loginNavigation_statusOnly(securityData, dest, deviceId) ==
  IF securityData.status # "approved"
  THEN [to |-> "/device-verification",
        state |-> [nextPath |-> dest, message |-> MsgNeedConfirm, deviceId |-> deviceId]]
  ELSE [to |-> dest, state |-> NoState]

\* the navigate() call handleLogin makes for a TrustDecision
loginNavigation(securityData, dest, deviceId) ==
  IF securityData.status # "approved" \/ securityData.requiresConfirmation
  THEN [to |-> "/device-verification",
        state |-> [nextPath |-> dest, message |-> MsgNeedConfirm, deviceId |-> deviceId]]
  ELSE [to |-> dest, state |-> NoState]

\* the form is on screen and submitted
SubmitLogin ==
  /\ pc = "idle"
  /\ route = "/login"
  /\ Rendered = "children"
  /\ pc' = "signIn"
  /\ loading' = TRUE
  /\ errorMsg' = ""
  /\ infoMsg' = ""
  /\ UNCHANGED <<pollerVars, envVars, otherVars, lsDeviceId, authVars, routerVars, destination, deviceMetadata,
                 securityError, decision, authOk, loginNavs, signOutCalls, registerCalls>>

\* signInWithPassword resolved with an error or without a user
SignInFails ==
  /\ pc = "signIn"
  /\ \E msg \in {MsgInvalidCredentials, NULL} :
       errorMsg' = Coalesce(msg, MsgLoginFallback)
  /\ loading' = FALSE
  /\ pc' = "done"
  /\ UNCHANGED <<pollerVars, envVars, otherVars, lsDeviceId, authVars, routerVars, infoMsg, destination, deviceMetadata,
                 securityError, decision, authOk, loginNavs, signOutCalls, registerCalls>>

\* signInWithPassword resolved with a user: the client holds the session and
\* notifies its subscribers; handleLogin runs on to its next await
SignInSucceeds ==
  /\ pc = "signIn"
  /\ supaSession' = SessionUser
  /\ authQueue' = Append(authQueue, SessionUser)
  /\ authOk' = TRUE
  /\ destination' = loginDestination(umRole, amRole)
  /\ \E generated \in GeneratedIds :
       LET md == collectDeviceMetadata(lsAvailable, lsWritable, lsDeviceId, generated)
       IN  /\ lsDeviceId' = md.stored
           /\ deviceMetadata' = [deviceId |-> md.deviceId, deviceName |-> md.deviceName,
                                 threw |-> md.threw, collected |-> TRUE]
           /\ IF loginAfterCollect(md) = "catch"
              THEN \* catch (err) ... finally
                   /\ errorMsg' = MsgQuotaExceeded
                   /\ loading' = FALSE
                   /\ pc' = "done"
                   /\ UNCHANGED <<signOutCalls, registerCalls>>
              ELSE IF loginAfterCollect(md) = "signOut"
              THEN \* await supabase.auth.signOut()
                   /\ errorMsg' = MsgCannotIdentify
                   /\ signOutCalls' = signOutCalls + 1
                   /\ pc' = "signOut"
                   /\ UNCHANGED <<loading, registerCalls>>
              ELSE \* await invokeFunction("registerLoginEvent", ...)
                   LET hdr == ensureDeviceId(lsAvailable, lsWritable, md.stored, generated)
                   IN  /\ registerCalls' = Append(registerCalls,
                            [deviceId |-> md.deviceId, deviceName |-> md.deviceName,
                             header |-> hdr.ret])
                       /\ pc' = "register"
                       /\ UNCHANGED <<errorMsg, loading, signOutCalls>>
  /\ UNCHANGED <<pollerVars, envVars, otherVars, getSessionPending, ctxSession, ctxLoading, routerVars, infoMsg,
                 securityError, decision, loginNavs>>

\* registerLoginEvent resolved with an error: await toRateLimitError(securityError)
RegisterFails ==
  /\ pc = "register"
  /\ \E e \in BackendErrors : securityError' = e
  /\ pc' = "classify"
  /\ UNCHANGED <<pollerVars, envVars, otherVars, lsDeviceId, authVars, routerVars, loading, errorMsg, infoMsg,
                 destination, deviceMetadata, decision, authOk, loginNavs, signOutCalls,
                 registerCalls>>

\* toRateLimitError resolved: the message is set, await supabase.auth.signOut()
ClassifyReturns ==
  /\ pc = "classify"
  /\ errorMsg' = loginErrorMessage(securityError)
  /\ signOutCalls' = signOutCalls + 1
  /\ pc' = "signOut"
  /\ UNCHANGED <<pollerVars, envVars, otherVars, lsDeviceId, authVars, routerVars, loading, infoMsg, destination,
                 deviceMetadata, securityError, decision, authOk, loginNavs, registerCalls>>

\* registerLoginEvent resolved with neither error nor data
RegisterEmpty ==
  /\ pc = "register"
  /\ errorMsg' = MsgUnexpectedResponse
  /\ signOutCalls' = signOutCalls + 1
  /\ pc' = "signOut"
  /\ UNCHANGED <<pollerVars, envVars, otherVars, lsDeviceId, authVars, routerVars, loading, infoMsg, destination,
                 deviceMetadata, securityError, decision, authOk, loginNavs, registerCalls>>

\* registerLoginEvent resolved with a TrustDecision: navigate, then finally
RegisterDecides ==
  /\ pc = "register"
  /\ \E d \in TrustDecisions :
       LET nav == loginNavigation(d, destination, deviceMetadata.deviceId)
       IN  /\ decision' = d
           /\ loginNavs' = Append(loginNavs, nav)
           /\ route' = nav.to
           /\ locState' = nav.state
  /\ loading' = FALSE
  /\ pc' = "done"
  /\ UNCHANGED <<pollerVars, envVars, otherVars, lsDeviceId, authVars, errorMsg, infoMsg, destination, deviceMetadata,
                 securityError, authOk, signOutCalls, registerCalls>>

\* supabase.auth.signOut() resolved: the session is gone, subscribers are notified
SignOutReturns ==
  /\ pc = "signOut"
  /\ supaSession' = NULL
  /\ authQueue' = Append(authQueue, NULL)
  /\ loading' = FALSE
  /\ pc' = "done"
  /\ UNCHANGED <<pollerVars, envVars, otherVars, lsDeviceId, getSessionPending, ctxSession, ctxLoading, routerVars,
                 errorMsg, infoMsg, destination, deviceMetadata, securityError, decision, authOk,
                 loginNavs, signOutCalls, registerCalls>>

\* no confirmDevice call has been made
NoCall == [stage |-> "none", outcome |-> "none", status |-> NULL, error |-> NoError,
           handled |-> FALSE]

\* the confirmation link has not been opened
ConfirmIdle ==
  /\ cfToken = NULL
  /\ cfMounted = "no"
  /\ cfCancelled = FALSE
  /\ cfStatus = "loading"
  /\ cfMessage = "Confirmando dispositivo..."
  /\ cfCall = NoCall
  /\ cfRequests = <<>>
  /\ cfTimers = 0
  /\ cfNavs = <<>>

\* toRateLimitError has not been called
ClassifierIdle ==
  /\ rlError = NoError
  /\ rlStage = "input"
  /\ rlSignal = NoRateLimit
  /\ rlText = NULL

\* filterAndSortRows has not been called
TableIdle ==
  /\ tblRows = <<>>
  /\ tblObjects = <<>>
  /\ tblArgs = NoArgs
  /\ tblResult = NoResult

OtherIdle ==
  /\ ConfirmIdle
  /\ callLog = <<>>
  /\ ClassifierIdle
  /\ TableIdle

\* the verification page is not on screen
PollerIdle ==
  /\ backendStatus = "pending"
  /\ dvMounted = "no"
  /\ dvCrashed = FALSE
  /\ dvDeviceId = NULL
  /\ dvNextPath = NULL
  /\ dvStatus = "pending"
  /\ dvError = NULL
  /\ dvInfo = NULL
  /\ dvResendLoading = FALSE
  /\ dvLogoutPending = FALSE
  /\ pollTimerRef = 0
  /\ intervals = {}
  /\ timersCreated = 0
  /\ inflight = {}
  /\ redirectTimers = 0
  /\ pollerNavs = <<>>
  /\ checkLog = <<>>
  /\ approvedAt = -1

NoMetadata == [deviceId |-> NULL, deviceName |-> NULL, threw |-> FALSE, collected |-> FALSE]

\* no login attempt has been made on the LoginPage
LoginIdle ==
  /\ pc = "idle"
  /\ loading = FALSE
  /\ errorMsg = ""
  /\ infoMsg = ""
  /\ destination = NULL
  /\ deviceMetadata = NoMetadata
  /\ securityError = NoError
  /\ decision = NoDecision
  /\ authOk = FALSE
  /\ loginNavs = <<>>
  /\ signOutCalls = 0
  /\ registerCalls = <<>>

InitLogin ==
  /\ lsAvailable \in BOOLEAN
  /\ lsWritable \in BOOLEAN
  /\ lsDeviceId \in StoredIds
  /\ umRole \in Roles
  /\ amRole \in Roles
  /\ supaSession = NULL
  /\ authQueue = <<>>
  /\ getSessionPending = TRUE
  /\ ctxSession = NULL
  /\ ctxLoading = TRUE
  /\ route = "/login"
  /\ locState = NoState
  /\ LoginIdle
  /\ PollerIdle
  /\ OtherIdle

NextLogin ==
  \/ GetSessionThen
  \/ AuthStateChange
  \/ PublicOnlyRedirect
  \/ ProtectedRedirect
  \/ SubmitLogin
  \/ SignInFails
  \/ SignInSucceeds
  \/ RegisterFails
  \/ ClassifyReturns
  \/ RegisterEmpty
  \/ RegisterDecides
  \/ SignOutReturns

SpecLogin == InitLogin /\ [][NextLogin]_vars

(***************************************************************************)
(* DeviceVerificationPage: the verification poller.                       *)
(***************************************************************************)
\* checkDeviceStatus requests dispatched in one run of the model
MaxChecks == 2

MsgVerifyDefault == "Enviamos um e-mail para confirmar este dispositivo."

MsgConfirmed == "Dispositivo confirmado. Redirecionando..."

MsgUnregisteredDevice == "Nao encontramos este dispositivo. Faca login novamente para solicitar uma nova verificacao."

MsgEmptyCheck == "Resposta vazia ao verificar o dispositivo."

MsgCheckFallback == "Nao foi possivel verificar o dispositivo."

MsgCheckBase == "Muitas verificacoes em sequencia."

MsgResendBase == "Aguarde um instante antes de reenviar."

MsgResendFallback == "Nao foi possivel reenviar."

MsgResent == "Um novo e-mail de confirmacao foi enviado."

\* a state setter that is not called
Keep == "<keep>"

\* results a checkDeviceStatus call may resolve with, besides the status
PollErrors == {ErrRate90, ErrServer}

PollOutcomes ==
  {[outcome |-> "data", error |-> NoError], [outcome |-> "empty", error |-> NoError]}
    \cup {[outcome |-> "error", error |-> e] : e \in PollErrors}

newRequest_staleAnswer(by, out) ==
  [id      |-> Len(checkLog) + 1,
   by      |-> by,
   stage   |-> "call",
   outcome |-> out.outcome,
   status  |-> IF out.outcome = "data" THEN "pending" ELSE NULL,
   error   |-> out.error]

\* invokeFunction("checkDeviceStatus", {body}) as dispatched: the backend
\* answers with the status it holds at that moment
newRequest(by, out) ==
  [id      |-> Len(checkLog) + 1,
   by      |-> by,
   stage   |-> "call",
   outcome |-> out.outcome,
   status  |-> IF out.outcome = "data" THEN backendStatus ELSE NULL,
   error   |-> out.error]

sentRequest_freshHeader(by, deviceId) ==
  [by       |-> by,
   deviceId |-> deviceId,
   resend   |-> (by = "resend"),
   header   |-> ensureDeviceId(lsAvailable, lsWritable, NULL, "gen-2").ret]

\* the request as the gateway sends it: body and X-Client-Device-Id header
sentRequest(by, deviceId) ==
  [by       |-> by,
   deviceId |-> deviceId,
   resend   |-> (by = "resend"),
   header   |-> ensureDeviceId(lsAvailable, lsWritable, lsDeviceId, "gen-1").ret]

checkStatusEffects_stopOnError(r) ==
  IF r.outcome = "error"
  THEN LET rateLimitError == toRateLimitError(r.error)
       IN  [status |-> Keep,
            error  |-> IF rateLimitError.isRateLimit
                       THEN formatRateLimitError(rateLimitError, MsgCheckBase)
                       ELSE Coalesce(r.error.message, MsgCheckFallback),
            info |-> Keep, clear |-> TRUE, redirect |-> FALSE]
  ELSE IF r.outcome = "empty"
  THEN [status |-> Keep, error |-> MsgEmptyCheck, info |-> Keep, clear |-> FALSE,
        redirect |-> FALSE]
  ELSE IF r.status = "approved"
  THEN [status |-> r.status, error |-> NULL, info |-> MsgConfirmed, clear |-> TRUE,
        redirect |-> TRUE]
  ELSE IF r.status = "unregistered"
  THEN [status |-> r.status, error |-> MsgUnregisteredDevice, info |-> Keep, clear |-> TRUE,
        redirect |-> FALSE]
  ELSE [status |-> r.status, error |-> Keep, info |-> Keep, clear |-> FALSE, redirect |-> FALSE]

\* checkStatus after its await: the setters it calls for a response
checkStatusEffects(r) ==
  IF r.outcome = "error"
  THEN LET rateLimitError == toRateLimitError(r.error)
       IN  [status |-> Keep,
            error  |-> IF rateLimitError.isRateLimit
                       THEN formatRateLimitError(rateLimitError, MsgCheckBase)
                       ELSE Coalesce(r.error.message, MsgCheckFallback),
            info |-> Keep, clear |-> FALSE, redirect |-> FALSE]
  ELSE IF r.outcome = "empty"
  THEN [status |-> Keep, error |-> MsgEmptyCheck, info |-> Keep, clear |-> FALSE,
        redirect |-> FALSE]
  ELSE IF r.status = "approved"
  THEN [status |-> r.status, error |-> NULL, info |-> MsgConfirmed, clear |-> TRUE,
        redirect |-> TRUE]
  ELSE IF r.status = "unregistered"
  THEN [status |-> r.status, error |-> MsgUnregisteredDevice, info |-> Keep, clear |-> TRUE,
        redirect |-> FALSE]
  ELSE [status |-> r.status, error |-> Keep, info |-> Keep, clear |-> FALSE, redirect |-> FALSE]

handleResendEffects_stopsPolling(r) ==
  IF r.outcome = "error"
  THEN LET rateLimitError == toRateLimitError(r.error)
       IN  [status |-> Keep,
            error  |-> IF rateLimitError.isRateLimit
                       THEN formatRateLimitError(rateLimitError, MsgResendBase)
                       ELSE Coalesce(r.error.message, MsgResendFallback),
            info |-> Keep, clear |-> FALSE, redirect |-> FALSE]
  ELSE IF r.outcome = "data" /\ r.status = "approved"
  THEN [status |-> "approved", error |-> Keep, info |-> MsgConfirmed, clear |-> TRUE,
        redirect |-> TRUE]
  ELSE [status |-> Keep, error |-> Keep, info |-> MsgResent, clear |-> TRUE, redirect |-> FALSE]

\* handleResend after its await: the setters it calls for a response
handleResendEffects(r) ==
  IF r.outcome = "error"
  THEN LET rateLimitError == toRateLimitError(r.error)
       IN  [status |-> Keep,
            error  |-> IF rateLimitError.isRateLimit
                       THEN formatRateLimitError(rateLimitError, MsgResendBase)
                       ELSE Coalesce(r.error.message, MsgResendFallback),
            info |-> Keep, clear |-> FALSE, redirect |-> FALSE]
  ELSE IF r.outcome = "data" /\ r.status = "approved"
  THEN [status |-> "approved", error |-> Keep, info |-> MsgConfirmed, clear |-> TRUE,
        redirect |-> TRUE]
  ELSE [status |-> Keep, error |-> Keep, info |-> MsgResent, clear |-> FALSE, redirect |-> FALSE]

Apply(setter, current) == IF setter = Keep THEN current ELSE setter

\* first render of the page, its two effects, and the re-render that the
\* setDeviceId of the first effect causes
MountVerification ==
  /\ dvMounted = "no"
  /\ route = "/device-verification"
  /\ Rendered = "children"
  /\ \E generated \in GeneratedIds :
       LET initialId == locState.deviceId
           e  == IF initialId # NULL
                 THEN [ret |-> initialId, stored |-> lsDeviceId, threw |-> FALSE]
                 ELSE ensureDeviceId(lsAvailable, lsWritable, lsDeviceId, generated)
           md == collectDeviceMetadata(lsAvailable, lsWritable, e.stored, generated)
           threw == e.threw \/ md.threw
           finalId == IF e.ret # NULL THEN e.ret ELSE initialId
       IN  /\ lsDeviceId' = IF e.threw THEN lsDeviceId ELSE md.stored
           /\ dvNextPath' = Coalesce(locState.nextPath, "/dashboard")
           /\ dvInfo' = Coalesce(locState.message, MsgVerifyDefault)
           /\ dvStatus' = "pending"
           /\ dvCrashed' = threw
           /\ IF threw
              THEN \* the effect's exception unmounts the tree; checkStatus of the
                   \* polling effect fails in invokeFunction the same way
                   /\ dvMounted' = "torn"
                   /\ dvDeviceId' = initialId
                   /\ dvError' = NULL
                   /\ UNCHANGED <<pollTimerRef, intervals, timersCreated, inflight, checkLog>>
              ELSE IF finalId = NULL
              THEN /\ dvMounted' = "yes"
                   /\ dvDeviceId' = NULL
                   /\ dvError' = MsgCannotIdentify
                   /\ UNCHANGED <<pollTimerRef, intervals, timersCreated, inflight, checkLog>>
              ELSE /\ dvMounted' = "yes"
                   /\ dvDeviceId' = finalId
                   /\ dvError' = IF initialId = NULL THEN MsgCannotIdentify ELSE NULL
                   /\ \E out \in PollOutcomes :
                        inflight' = inflight \cup {newRequest("entry", out)}
                   /\ checkLog' = Append(checkLog,
                        [by |-> "entry", deviceId |-> finalId, resend |-> FALSE,
                         header |-> md.deviceId])
                   /\ timersCreated' = timersCreated + 1
                   /\ pollTimerRef' = timersCreated + 1
                   /\ intervals' = intervals \cup {timersCreated + 1}
  /\ UNCHANGED <<envVars, otherVars, authVars, routerVars, loginVars, backendStatus, dvResendLoading,
                 dvLogoutPending, redirectTimers, pollerNavs, approvedAt>>

\* the interval fires: checkStatus()
TimerTick ==
  /\ intervals # {}
  /\ Len(checkLog) < MaxChecks
  /\ \E out \in PollOutcomes : inflight' = inflight \cup {newRequest("timer", out)}
  /\ checkLog' = Append(checkLog, sentRequest("timer", dvDeviceId))
  /\ UNCHANGED <<envVars, otherVars, lsDeviceId, authVars, routerVars, loginVars, backendStatus, dvMounted,
                 dvCrashed, dvDeviceId, dvNextPath, dvStatus, dvError, dvInfo, dvResendLoading,
                 dvLogoutPending, pollTimerRef, intervals, timersCreated, redirectTimers,
                 pollerNavs, approvedAt>>

\* the resend button is on screen and clicked: handleResend up to its await
ResendClick ==
  /\ dvMounted = "yes"
  /\ dvStatus # "approved"
  /\ ~dvResendLoading
  /\ dvDeviceId # NULL
  /\ Len(checkLog) < MaxChecks
  /\ dvResendLoading' = TRUE
  /\ dvError' = NULL
  /\ \E out \in PollOutcomes : inflight' = inflight \cup {newRequest("resend", out)}
  /\ checkLog' = Append(checkLog, sentRequest("resend", dvDeviceId))
  /\ UNCHANGED <<envVars, otherVars, lsDeviceId, authVars, routerVars, loginVars, backendStatus, dvMounted,
                 dvCrashed, dvDeviceId, dvNextPath, dvStatus, dvInfo, dvLogoutPending,
                 pollTimerRef, intervals, timersCreated, redirectTimers, pollerNavs,
                 approvedAt>>

\* a call resolved with an error: await toRateLimitError(fnError)
CheckReturnsError ==
  /\ \E r \in inflight :
       /\ r.stage = "call"
       /\ r.outcome = "error"
       /\ inflight' = (inflight \ {r}) \cup {[r EXCEPT !.stage = "classify"]}
  /\ UNCHANGED <<envVars, otherVars, lsDeviceId, authVars, routerVars, loginVars, backendStatus, dvMounted,
                 dvCrashed, dvDeviceId, dvNextPath, dvStatus, dvError, dvInfo, dvResendLoading,
                 dvLogoutPending, pollTimerRef, intervals, timersCreated, redirectTimers,
                 pollerNavs, checkLog, approvedAt>>

\* the rest of checkStatus / handleResend runs for one call; the setters of
\* an unmounted component change nothing, clearPollTimer and setTimeout do
CheckCompletes ==
  /\ \E r \in inflight :
       /\ r.stage = "classify" \/ r.outcome # "error"
       /\ LET eff == IF r.by = "resend" THEN handleResendEffects(r) ELSE checkStatusEffects(r)
              cleared == IF eff.clear THEN clearPollTimer(pollTimerRef, intervals)
                         ELSE [ref |-> pollTimerRef, ivs |-> intervals]
          IN  /\ inflight' = inflight \ {r}
              /\ approvedAt' = IF approvedAt = -1 /\ r.outcome = "data" /\ r.status = "approved"
                               THEN Len(checkLog) ELSE approvedAt
              /\ pollTimerRef' = cleared.ref
              /\ intervals' = cleared.ivs
              /\ redirectTimers' = IF eff.redirect THEN redirectTimers + 1 ELSE redirectTimers
              /\ IF dvMounted = "yes"
                 THEN /\ dvStatus' = Apply(eff.status, dvStatus)
                      /\ dvError' = Apply(eff.error, dvError)
                      /\ dvInfo' = Apply(eff.info, dvInfo)
                      /\ dvResendLoading' = IF r.by = "resend" THEN FALSE ELSE dvResendLoading
                 ELSE UNCHANGED <<dvStatus, dvError, dvInfo, dvResendLoading>>
  /\ UNCHANGED <<envVars, otherVars, lsDeviceId, authVars, routerVars, loginVars, backendStatus, dvMounted,
                 dvCrashed, dvDeviceId, dvNextPath, dvLogoutPending, timersCreated, pollerNavs,
                 checkLog>>

\* a setTimeout callback runs: navigate(nextPath, {replace: true, state: null})
RedirectFires ==
  /\ redirectTimers > 0
  /\ redirectTimers' = redirectTimers - 1
  /\ pollerNavs' = Append(pollerNavs, dvNextPath)
  /\ route' = dvNextPath
  /\ locState' = NoState
  /\ IF dvMounted = "yes"
     THEN UnmountVerification
     ELSE UNCHANGED <<dvMounted, pollTimerRef, intervals>>
  /\ UNCHANGED <<envVars, otherVars, lsDeviceId, authVars, loginVars, backendStatus, dvCrashed, dvDeviceId,
                 dvNextPath, dvStatus, dvError, dvInfo, dvResendLoading, dvLogoutPending,
                 timersCreated, inflight, checkLog, approvedAt>>

\* the user leaves the verification screen
Teardown ==
  /\ dvMounted = "yes"
  /\ route' = "/"
  /\ locState' = NoState
  /\ UnmountVerification
  /\ UNCHANGED <<envVars, otherVars, lsDeviceId, authVars, loginVars, backendStatus, dvCrashed, dvDeviceId,
                 dvNextPath, dvStatus, dvError, dvInfo, dvResendLoading, dvLogoutPending,
                 timersCreated, inflight, redirectTimers, pollerNavs, checkLog,
                 approvedAt>>

\* handleLogout up to its await supabase.auth.signOut()
LogoutClick ==
  /\ dvMounted = "yes"
  /\ ~dvLogoutPending
  /\ dvLogoutPending' = TRUE
  /\ UNCHANGED <<envVars, otherVars, lsDeviceId, authVars, routerVars, loginVars, backendStatus, dvMounted,
                 dvCrashed, dvDeviceId, dvNextPath, dvStatus, dvError, dvInfo, dvResendLoading,
                 pollTimerRef, intervals, timersCreated, inflight, redirectTimers, pollerNavs,
                 checkLog, approvedAt>>

\* signOut resolved: clearPollTimer(); navigate("/login", {replace: true})
LogoutReturns ==
  /\ dvLogoutPending
  /\ dvLogoutPending' = FALSE
  /\ supaSession' = NULL
  /\ authQueue' = Append(authQueue, NULL)
  /\ route' = "/login"
  /\ locState' = NoState
  /\ pollTimerRef' = clearPollTimer(pollTimerRef, intervals).ref
  /\ intervals' = clearPollTimer(pollTimerRef, intervals).ivs
  /\ dvMounted' = "torn"
  /\ UNCHANGED <<envVars, otherVars, lsDeviceId, getSessionPending, ctxSession, ctxLoading, loginVars,
                 backendStatus, dvCrashed, dvDeviceId, dvNextPath, dvStatus, dvError, dvInfo,
                 dvResendLoading, timersCreated, inflight, redirectTimers, pollerNavs, checkLog, approvedAt>>

\* the user follows the e-mailed link: confirmDevice approves the device
BackendApproves ==
  /\ backendStatus = "pending"
  /\ backendStatus' = "approved"
  /\ UNCHANGED <<envVars, otherVars, lsDeviceId, authVars, routerVars, loginVars, dvMounted, dvCrashed,
                 dvDeviceId, dvNextPath, dvStatus, dvError, dvInfo, dvResendLoading,
                 dvLogoutPending, pollTimerRef, intervals, timersCreated, inflight,
                 redirectTimers, pollerNavs, checkLog, approvedAt>>

\* the backend drops the pending device
BackendUnregisters ==
  /\ backendStatus = "pending"
  /\ backendStatus' = "unregistered"
  /\ UNCHANGED <<envVars, otherVars, lsDeviceId, authVars, routerVars, loginVars, dvMounted, dvCrashed,
                 dvDeviceId, dvNextPath, dvStatus, dvError, dvInfo, dvResendLoading,
                 dvLogoutPending, pollTimerRef, intervals, timersCreated, inflight,
                 redirectTimers, pollerNavs, checkLog, approvedAt>>

\* the location.state handleLogin hands over for the stored device id
HandOffState ==
  [nextPath |-> loginDestination(umRole, amRole), message |-> MsgNeedConfirm,
   deviceId |-> getDeviceId(lsAvailable, lsDeviceId)]

\* /device-verification is about to be rendered for a signed-in user, after
\* the hand-off of handleLogin or opened directly
InitPoller ==
  /\ lsAvailable \in BOOLEAN
  /\ lsWritable \in BOOLEAN
  /\ lsDeviceId \in StoredIds
  \* setItem is only ever called when no identifier is stored
  /\ lsWritable \/ (lsAvailable /\ getDeviceId(lsAvailable, lsDeviceId) = NULL)
  /\ umRole = "admin"
  /\ amRole = NULL
  /\ supaSession = SessionUser
  /\ authQueue = <<>>
  /\ getSessionPending = FALSE
  /\ ctxSession = SessionUser
  /\ ctxLoading = FALSE
  /\ route = "/device-verification"
  /\ locState \in {NoState} \cup
       (IF getDeviceId(lsAvailable, lsDeviceId) # NULL THEN {HandOffState} ELSE {})
  /\ LoginIdle
  /\ OtherIdle
  /\ backendStatus \in {"pending", "approved", "unregistered"}
  /\ dvMounted = "no"
  /\ dvCrashed = FALSE
  /\ dvDeviceId = NULL
  /\ dvNextPath = NULL
  /\ dvStatus = "pending"
  /\ dvError = NULL
  /\ dvInfo = NULL
  /\ dvResendLoading = FALSE
  /\ dvLogoutPending = FALSE
  /\ pollTimerRef = 0
  /\ intervals = {}
  /\ timersCreated = 0
  /\ inflight = {}
  /\ redirectTimers = 0
  /\ pollerNavs = <<>>
  /\ checkLog = <<>>
  /\ approvedAt = -1

NextPoller ==
  \/ MountVerification
  \/ TimerTick
  \/ ResendClick
  \/ CheckReturnsError
  \/ CheckCompletes
  \/ RedirectFires
  \/ Teardown
  \/ LogoutClick
  \/ LogoutReturns
  \/ AuthStateChange
  \/ ProtectedRedirect
  \/ BackendApproves
  \/ BackendUnregisters

SpecPoller == InitPoller /\ [][NextPoller]_vars

(***************************************************************************)
(* Claims about the login orchestrator.                                   *)
(***************************************************************************)
\* the role destination, from the account's claims: user_metadata.role when
\* present, else app_metadata.role; /admin for "admin", else /dashboard
ExpectedDestination ==
  IF umRole = "admin" \/ (umRole = NULL /\ amRole = "admin") THEN "/admin" ELSE "/dashboard"

Approved(d) == d.received /\ d.status = "approved" /\ ~d.requiresConfirmation

\* C1: a protected tenant route (/dashboard, /admin) is rendered only for a
\* session whose login attempt received a TrustDecision {approved,
\* requiresConfirmation false}.
C1_TenantOnlyAfterApproval == TenantRendered => Approved(decision)

\* C2: whenever handleLogin has finished after a successful password
\* authentication, the session is signed out, or approved and entered, or
\* handed off to /device-verification.
C2_HaltSignsOut ==
  (pc = "done" /\ authOk) =>
     \/ supaSession = NULL
     \/ Approved(decision) /\ Len(loginNavs) = 1 /\ loginNavs[1].to \in TenantPaths
     \/ Len(loginNavs) = 1 /\ loginNavs[1].to = "/device-verification"

\* C3: for every TrustDecision other than {approved, requiresConfirmation
\* false}, handleLogin makes exactly one navigation, to /device-verification,
\* carrying nextPath = the role destination and the deviceId that was reported
\* to registerLoginEvent; it makes no navigation to /dashboard or /admin.
C3_NotApprovedAwaitsVerification ==
  (pc = "done" /\ decision.received /\ ~Approved(decision)) =>
     /\ Len(registerCalls) = 1
     /\ loginNavs = << [to |-> "/device-verification",
                        state |-> [nextPath |-> ExpectedDestination,
                                   message  |-> MsgNeedConfirm,
                                   deviceId |-> registerCalls[1].deviceId]] >>
     /\ registerCalls[1].deviceId # NULL

C3_Witness ==
  /\ pc = "done"
  /\ decision.received
  /\ decision.status = "approved"
  /\ decision.requiresConfirmation
  /\ Len(loginNavs) = 1

\* C4: given {approved, requiresConfirmation false}, handleLogin navigates
\* exactly once, to the role destination, and never calls sign-out.
C4_ApprovedEnters ==
  (pc = "done" /\ Approved(decision)) =>
     /\ loginNavs = << [to |-> ExpectedDestination, state |-> NoState] >>
     /\ signOutCalls = 0
     /\ supaSession = SessionUser

C4_Witness ==
  /\ pc = "done"
  /\ Approved(decision)
  /\ umRole = NULL
  /\ amRole = NULL
  /\ loginNavs # <<>>

ExpectedRegisterErrorMsg ==
  IF securityError = ErrRate90
  THEN "Limite excedido. Tente novamente em 1 minuto e 30 segundos."
  ELSE IF securityError = ErrRateBare
  THEN "Muitas tentativas de login em sequencia. Tente novamente em instantes."
  ELSE securityError.message

C7_ApprovedStopsAndRedirectsOnce ==
  approvedAt # -1 =>
     /\ Len(checkLog) = approvedAt
     /\ redirectTimers + Len(pollerNavs) = 1
     /\ \A i \in 1..Len(pollerNavs) : pollerNavs[i] = dvNextPath

\* the step is the continuation of call r after toRateLimitError classified
\* its error as a rate limit
RateLimitedCompletion(r) ==
  /\ r.stage = "classify"
  /\ r.error.status = 429
  /\ r \notin inflight'

\* C8: a status check that fails with a classified rate-limit error leaves
\* the status as it was (pending stays pending), leaves the polling interval
\* running and schedules nothing; the page shows the formatted message.
C8_RateLimitedCheckKeepsPolling ==
  [][ \A r \in inflight :
        RateLimitedCompletion(r) =>
          /\ dvStatus' = dvStatus
          /\ pollTimerRef' = pollTimerRef
          /\ intervals' = intervals
          /\ redirectTimers' = redirectTimers
          /\ dvMounted = "yes" =>
               dvError' = "Limite excedido. Tente novamente em 1 minuto e 30 segundos."
    ]_vars

\* the entry check was answered with a rate-limit error, the page still shows
\* pending and its message, and the interval has started the next check
C8_Witness ==
  /\ dvMounted = "yes"
  /\ dvStatus = "pending"
  /\ dvError = "Limite excedido. Tente novamente em 1 minuto e 30 segundos."
  /\ intervals # {}
  /\ Len(checkLog) = 2
  /\ checkLog[2].by = "timer"
  /\ \A r \in inflight : r.id = 2 /\ r.stage = "call"
  /\ inflight # {}

TimerCheckStarted ==
  /\ Len(checkLog') > Len(checkLog)
  /\ checkLog'[Len(checkLog')].by = "timer"

UnregisteredResult ==
  \E r \in inflight :
    /\ r \notin inflight'
    /\ r.by # "resend"
    /\ r.outcome = "data"
    /\ r.status = "unregistered"

\* C9: with a device id the page makes one status check on entry and starts
\* one interval; every further timer-driven check is started by that
\* interval, one per tick; an unregistered result and the teardown of the
\* page cancel the interval, no interval is created afterwards, and at most
\* one interval is ever active.
C9_PollSchedule ==
  /\ [] /\ (dvMounted = "yes" /\ dvDeviceId # NULL) =>
              /\ Len(checkLog) >= 1
              /\ checkLog[1].by = "entry"
              /\ ~checkLog[1].resend
              /\ checkLog[1].deviceId = dvDeviceId
              /\ timersCreated = 1
        /\ Cardinality(intervals) <= 1
        /\ dvMounted = "torn" => intervals = {}
        /\ (dvMounted = "yes" /\ dvStatus = "unregistered") => intervals = {}
        /\ \A i \in 2..Len(checkLog) : checkLog[i].by # "entry"
  /\ [][ /\ TimerCheckStarted =>
              /\ intervals # {}
              /\ dvMounted = "yes"
              /\ Len(checkLog') = Len(checkLog) + 1
         /\ UnregisteredResult => intervals' = {}
         /\ dvMounted # "no" => intervals' \subseteq intervals
     ]_vars

\* the page was torn down after an unregistered result; an entry check and a
\* timer-driven check were made and no interval is left
C9_Witness ==
  /\ dvMounted = "torn"
  /\ dvStatus = "unregistered"
  /\ dvDeviceId # NULL
  /\ Len(checkLog) = 2
  /\ checkLog[1].by = "entry"
  /\ checkLog[2].by = "timer"
  /\ timersCreated = 1
  /\ intervals = {}

\* C10: once the displayed status is approved or unregistered it never
\* changes again.
C10_TerminalStatuses ==
  [][ (dvStatus \in {"approved", "unregistered"}) => (dvStatus' = dvStatus) ]_vars

(***************************************************************************)
(* Confirmation link handler (ConfirmDevicePage).                         *)
(***************************************************************************)
\* url.searchParams.get("token")
ConfirmTokens == {NULL, " ", "tok-1"}

\* get("token")?.trim()
trimToken(t) == IF t = NULL THEN NULL ELSE IF t \in BlankStrings THEN "" ELSE t

\* what the confirmDevice call may resolve with
ConfirmOutcomes ==
  {[outcome |-> "data", status |-> "approved", error |-> NoError],
   [outcome |-> "data", status |-> NULL, error |-> NoError],
   [outcome |-> "empty", status |-> NULL, error |-> NoError]}
    \cup {[outcome |-> "error", status |-> NULL, error |-> e] : e \in BackendErrors}

confirmDeviceEffects_alwaysRedirect(r) ==
  IF r.outcome = "error"
  THEN LET rateLimitError == toRateLimitError(r.error)
       IN  [status   |-> "error",
            message  |-> IF rateLimitError.isRateLimit
                         THEN formatRateLimitError(rateLimitError,
                                "Tente abrir este link novamente em instantes.")
                         ELSE Coalesce(r.error.message, "Nao foi possivel confirmar o dispositivo."),
            redirect |-> FALSE]
  ELSE IF r.outcome = "data" /\ r.status = "approved"
  THEN [status   |-> "success",
        message  |-> "Dispositivo confirmado com sucesso. Voce pode retornar ao aplicativo.",
        redirect |-> TRUE]
  ELSE [status   |-> "success",
        message  |-> "Dispositivo confirmado. Voce pode fechar esta aba.",
        redirect |-> TRUE]

\* the effect's handling of { data, error }: the state it sets and whether it
\* schedules the redirect
confirmDeviceEffects(r) ==
  IF r.outcome = "error"
  THEN LET rateLimitError == toRateLimitError(r.error)
       IN  [status   |-> "error",
            message  |-> IF rateLimitError.isRateLimit
                         THEN formatRateLimitError(rateLimitError,
                                "Tente abrir este link novamente em instantes.")
                         ELSE Coalesce(r.error.message, "Nao foi possivel confirmar o dispositivo."),
            redirect |-> FALSE]
  ELSE IF r.outcome = "data" /\ r.status = "approved"
  THEN [status   |-> "success",
        message  |-> "Dispositivo confirmado com sucesso. Voce pode retornar ao aplicativo.",
        redirect |-> TRUE]
  ELSE [status   |-> "success",
        message  |-> "Dispositivo confirmado. Voce pode fechar esta aba.",
        redirect |-> FALSE]

\* the page is rendered and its effect runs up to the await
OpenConfirmLink ==
  /\ cfMounted = "no"
  /\ \E t \in ConfirmTokens, out \in ConfirmOutcomes, g \in GeneratedIds :
       LET token == trimToken(t)
           e     == ensureDeviceId(lsAvailable, lsWritable, lsDeviceId, g)
       IN  /\ cfToken' = t
           /\ cfMounted' = "yes"
           /\ IF token = NULL \/ token = ""
              THEN /\ cfStatus' = "error"
                   /\ cfMessage' = "Token ausente ou invalido. Solicite um novo e-mail de verificacao."
                   /\ UNCHANGED <<lsDeviceId, cfCall, cfRequests>>
              ELSE IF e.threw
              THEN \* invokeFunction rejects; the catch block reports it
                   /\ cfStatus' = "error"
                   /\ cfMessage' = MsgQuotaExceeded
                   /\ cfCall' = [NoCall EXCEPT !.stage = "threw"]
                   /\ UNCHANGED <<lsDeviceId, cfRequests>>
              ELSE /\ lsDeviceId' = e.stored
                   /\ cfRequests' = Append(cfRequests, [token |-> token, header |-> e.ret])
                   /\ cfCall' = [stage |-> "call", outcome |-> out.outcome, status |-> out.status,
                                 error |-> out.error, handled |-> FALSE]
                   /\ UNCHANGED <<cfStatus, cfMessage>>
  /\ UNCHANGED <<envVars, authVars, routerVars, loginVars, pollerVars, cfCancelled, cfTimers,
                 cfNavs, callLog, classifierVars, tableVars>>

\* the await of invokeFunction resumes
ConfirmReturns ==
  /\ cfCall.stage = "call"
  /\ IF cfCancelled
     THEN /\ cfCall' = [cfCall EXCEPT !.stage = "done"]
          /\ UNCHANGED <<cfStatus, cfMessage, cfTimers>>
     ELSE IF cfCall.outcome = "error"
     THEN /\ cfCall' = [cfCall EXCEPT !.stage = "classify", !.handled = TRUE]
          /\ UNCHANGED <<cfStatus, cfMessage, cfTimers>>
     ELSE LET fx == confirmDeviceEffects(cfCall)
          IN  /\ cfCall' = [cfCall EXCEPT !.stage = "done", !.handled = TRUE]
              /\ cfStatus' = fx.status
              /\ cfMessage' = fx.message
              /\ cfTimers' = IF fx.redirect THEN cfTimers + 1 ELSE cfTimers
  /\ UNCHANGED <<envVars, lsDeviceId, authVars, routerVars, loginVars, pollerVars, cfToken,
                 cfMounted, cfCancelled, cfRequests, cfNavs, callLog, classifierVars, tableVars>>

\* the await of toRateLimitError resumes
ConfirmClassified ==
  /\ cfCall.stage = "classify"
  /\ cfCall' = [cfCall EXCEPT !.stage = "done"]
  /\ IF cfMounted = "yes"
     THEN /\ cfStatus' = confirmDeviceEffects(cfCall).status
          /\ cfMessage' = confirmDeviceEffects(cfCall).message
     ELSE UNCHANGED <<cfStatus, cfMessage>>
  /\ UNCHANGED <<envVars, lsDeviceId, authVars, routerVars, loginVars, pollerVars, cfToken,
                 cfMounted, cfCancelled, cfRequests, cfTimers, cfNavs, callLog, classifierVars, tableVars>>

\* the user leaves by one of the page's buttons: the effect cleanup sets
\* cancelled
CloseConfirm ==
  /\ cfMounted = "yes"
  /\ cfMounted' = "torn"
  /\ cfCancelled' = TRUE
  /\ route' \in {"/login", "/device-verification"}
  /\ locState' = NoState
  /\ UNCHANGED <<envVars, lsDeviceId, authVars, loginVars, pollerVars, cfToken, cfStatus,
                 cfMessage, cfCall, cfRequests, cfTimers, cfNavs, callLog, classifierVars, tableVars>>

\* the setTimeout callback: navigate("/device-verification", {replace: true})
ConfirmRedirectFires ==
  /\ cfTimers > 0
  /\ cfTimers' = cfTimers - 1
  /\ cfNavs' = Append(cfNavs, "/device-verification")
  /\ route' = "/device-verification"
  /\ locState' = NoState
  /\ cfMounted' = IF cfMounted = "yes" THEN "torn" ELSE cfMounted
  /\ cfCancelled' = (cfCancelled \/ cfMounted = "yes")
  /\ UNCHANGED <<envVars, lsDeviceId, authVars, loginVars, pollerVars, cfToken, cfStatus,
                 cfMessage, cfCall, cfRequests, callLog, classifierVars, tableVars>>

\* /confirm-device?token=... is about to be rendered
InitConfirm ==
  /\ lsAvailable \in BOOLEAN
  /\ lsWritable \in BOOLEAN
  /\ lsDeviceId \in StoredIds
  /\ umRole = NULL
  /\ amRole = NULL
  /\ supaSession \in {NULL, SessionUser}
  /\ authQueue = <<>>
  /\ getSessionPending = FALSE
  /\ ctxSession = supaSession
  /\ ctxLoading = FALSE
  /\ route = "/confirm-device"
  /\ locState = NoState
  /\ LoginIdle
  /\ PollerIdle
  /\ OtherIdle

NextConfirm ==
  \/ OpenConfirmLink
  \/ ConfirmReturns
  \/ ConfirmClassified
  \/ CloseConfirm
  \/ ConfirmRedirectFires

SpecConfirm == InitConfirm /\ [][NextConfirm]_vars

(***************************************************************************)
(* Claims about the confirmation link handler.                            *)
(***************************************************************************)
\* C11: with the token parameter absent or blank the handler makes no
\* confirmDevice call and shows the error state; with a token present it
\* makes exactly one confirmDevice call over its lifetime.
C11_TokenSubmittedOnce ==
  cfMounted # "no" =>
    IF cfToken = NULL \/ cfToken \in BlankStrings
    THEN Len(cfRequests) = 0 /\ cfStatus = "error"
    ELSE Len(cfRequests) = 1 /\ cfRequests[1].token = cfToken

\* the message the claim expects for each error confirmDevice may return
ExpectedConfirmErrorMsg ==
  IF cfCall.error = ErrRate90
  THEN "Limite excedido. Tente novamente em 1 minuto e 30 segundos."
  ELSE IF cfCall.error = ErrRateBare
  THEN "Tente abrir este link novamente em instantes. Tente novamente em instantes."
  ELSE cfCall.error.message

\* C12: once the handler has dealt with the confirmDevice result, its state
\* is determined by that result: a rate-limit error gives the error state
\* with the retry-later sentence, any other error the error state with its
\* message, approved the success state and exactly one navigation to
\* /device-verification (scheduled or made), anything else the success state
\* and no navigation.  A result that arrives after the page was left is
\* discarded.
C12_OutcomeDeterminesState ==
  /\ (cfCall.stage = "done" /\ cfCall.handled /\ cfCall.outcome = "error") =>
        /\ cfTimers + Len(cfNavs) = 0
        /\ cfMounted = "yes" => (cfStatus = "error" /\ cfMessage = ExpectedConfirmErrorMsg)
  /\ (cfCall.stage = "done" /\ cfCall.handled /\ cfCall.outcome = "data"
        /\ cfCall.status = "approved") =>
        /\ cfStatus = "success"
        /\ cfMessage = "Dispositivo confirmado com sucesso. Voce pode retornar ao aplicativo."
        /\ cfTimers + Len(cfNavs) = 1
        /\ \A i \in 1..Len(cfNavs) : cfNavs[i] = "/device-verification"
  /\ (cfCall.stage = "done" /\ cfCall.handled /\ cfCall.outcome # "error"
        /\ cfCall.status # "approved") =>
        /\ cfStatus = "success"
        /\ cfMessage = "Dispositivo confirmado. Voce pode fechar esta aba."
        /\ cfTimers + Len(cfNavs) = 0
  /\ (cfCall.stage = "done" /\ ~cfCall.handled) =>
        /\ cfStatus = "loading"
        /\ cfTimers + Len(cfNavs) = 0

\* an approved confirmation whose delayed navigation has been made
C12_Witness ==
  /\ cfCall.stage = "done"
  /\ cfCall.handled
  /\ cfCall.status = "approved"
  /\ cfStatus = "success"
  /\ cfNavs = <<"/device-verification">>
  /\ cfTimers = 0
  /\ route = "/device-verification"

(***************************************************************************)
(* Login from a new browser followed by the verification screen.          *)
(***************************************************************************)
\* /login in a browser profile that holds no device identifier yet
InitNewBrowser ==
  /\ lsAvailable = TRUE
  /\ lsWritable = TRUE
  /\ lsDeviceId = NULL
  /\ umRole = "admin"
  /\ amRole = NULL
  /\ supaSession = NULL
  /\ authQueue = <<>>
  /\ getSessionPending = TRUE
  /\ ctxSession = NULL
  /\ ctxLoading = TRUE
  /\ route = "/login"
  /\ locState = NoState
  /\ LoginIdle
  /\ PollerIdle
  /\ OtherIdle

\* the login page, then the verification screen on which the user waits
\* (or which the user leaves) while the e-mailed link is followed
NextNewBrowser ==
  \/ GetSessionThen
  \/ AuthStateChange
  \/ PublicOnlyRedirect
  \/ ProtectedRedirect
  \/ SubmitLogin
  \/ SignInFails
  \/ SignInSucceeds
  \/ RegisterFails
  \/ ClassifyReturns
  \/ RegisterEmpty
  \/ RegisterDecides
  \/ SignOutReturns
  \/ MountVerification
  \/ TimerTick
  \/ ResendClick
  \/ CheckReturnsError
  \/ CheckCompletes
  \/ RedirectFires
  \/ Teardown
  \/ BackendApproves

\* ENABLED <<CheckCompletes>>_vars, written out
CheckCompletesEnabled ==
  \E r \in inflight : r.stage = "classify" \/ r.outcome # "error"

\* the interval keeps firing while it exists, pending calls resolve and
\* their continuations run, and a scheduled timeout fires
FairTimersAndResponses ==
  /\ WF_vars(TimerTick)
  /\ WF_vars(CheckReturnsError)
  /\ WF_vars(RedirectFires)
  \* WF_vars(CheckCompletes)
  /\ ([]<>(~CheckCompletesEnabled) \/ []<><<CheckCompletes>>_vars)

SpecNewBrowser == InitNewBrowser /\ [][NextNewBrowser]_vars /\ FairTimersAndResponses

(***************************************************************************)
(* Claim about the whole flow.                                            *)
(***************************************************************************)
\* a checkDeviceStatus answer that reports approved is on its way
ApprovedAnswerPending ==
  \E r \in inflight : r.outcome = "data" /\ r.status = "approved"

\* the user has been navigated to the destination recorded at login
NavigatedToDestination ==
  /\ pollerNavs # <<>>
  /\ \A i \in 1..Len(pollerNavs) : pollerNavs[i] = destination

\* C13: login from a browser with no stored device id creates one and
\* reports it; with a pending decision the verification screen polls with
\* that id; while the interval exists the next check is eventually started;
\* a check started after the backend approved the device, when answered,
\* reports approved; and an approved answer leads, under fair timers and
\* responses, to the navigation to the destination recorded at login.
C13_NewBrowserFlow ==
  /\ [] /\ registerCalls # <<>> =>
             /\ lsDeviceId \in GeneratedIds
             /\ registerCalls[1].deviceId = lsDeviceId
             /\ registerCalls[1].header = lsDeviceId
        /\ (dvMounted = "yes" /\ decision.status = "pending") =>
             /\ dvDeviceId = lsDeviceId
             /\ dvNextPath = destination
             /\ checkLog # <<>>
             /\ checkLog[1].by = "entry"
             /\ checkLog[1].deviceId = lsDeviceId
  /\ [][ \A r \in inflight' \ inflight :
           (backendStatus = "approved" /\ r.outcome = "data") => r.status = "approved" ]_vars
  /\ (intervals # {} /\ Len(checkLog) < MaxChecks)
        ~> (Len(checkLog) = MaxChecks \/ intervals = {})
  /\ (ApprovedAnswerPending /\ decision.status = "pending") ~> NavigatedToDestination

\* a pending login from a new browser whose second, timer-driven check saw
\* the approval, after which the user was navigated to the destination
C13_Witness ==
  /\ decision.status = "pending"
  /\ lsDeviceId \in GeneratedIds
  /\ backendStatus = "approved"
  /\ Len(checkLog) = 2
  /\ checkLog[2].by = "timer"
  /\ approvedAt = 2
  /\ pollerNavs = <<destination>>
  /\ route = destination
  /\ destination = "/admin"

(***************************************************************************)
(* Callers of the device store and of the backend functions.              *)
(***************************************************************************)
MaxCalls == 3

\* { data, error } results the backend may give
Answers == {"data", "error"}

\* invokeFunction(functionName, options): the identifier it asked for, the
\* requests it dispatched, the X-Client-Device-Id header and what it returned
invokeFunction(avail, writable, stored, generated, answer) ==
  LET e == ensureDeviceId(avail, writable, stored, generated)
  IN  IF e.threw
      THEN [id |-> NULL, threw |-> TRUE, sent |-> 0, header |-> NULL, result |-> NULL,
            stored |-> e.stored]
      ELSE [id |-> e.ret, threw |-> FALSE, sent |-> 1, header |-> e.ret, result |-> answer,
            stored |-> e.stored]

\* call sites that use the gateway, and call sites that call
\* supabase.functions.invoke themselves
GatewayFunctions == {"checkDeviceStatus", "toggleCustomerPaused"}

DirectFunctions == {"listCompanies", "fetchUserData"}

logEntry(fn, name, r, answer) ==
  [fn |-> fn, name |-> name, id |-> r.id, threw |-> r.threw, sent |-> r.sent,
   header |-> r.header, answer |-> answer, result |-> r.result,
   before |-> lsDeviceId, after |-> r.stored, writable |-> lsWritable]

CallEnsureDeviceId ==
  /\ Len(callLog) < MaxCalls
  /\ \E g \in GeneratedIds :
       LET e == ensureDeviceId(lsAvailable, lsWritable, lsDeviceId, g)
           r == [id |-> e.ret, threw |-> e.threw, sent |-> 0, header |-> NULL, result |-> NULL,
                 stored |-> e.stored]
       IN  /\ lsDeviceId' = e.stored
           /\ callLog' = Append(callLog, logEntry("ensureDeviceId", NULL, r, NULL))
  /\ UNCHANGED <<envVars, authVars, routerVars, loginVars, pollerVars, confirmVars, classifierVars, tableVars>>

CallGetDeviceId ==
  /\ Len(callLog) < MaxCalls
  /\ LET r == [id |-> getDeviceId(lsAvailable, lsDeviceId), threw |-> FALSE, sent |-> 0,
               header |-> NULL, result |-> NULL, stored |-> lsDeviceId]
     IN  callLog' = Append(callLog, logEntry("getDeviceId", NULL, r, NULL))
  /\ UNCHANGED <<envVars, lsDeviceId, authVars, routerVars, loginVars, pollerVars, confirmVars,
                 classifierVars, tableVars>>

CallCollectDeviceMetadata ==
  /\ Len(callLog) < MaxCalls
  /\ \E g \in GeneratedIds :
       LET md == collectDeviceMetadata(lsAvailable, lsWritable, lsDeviceId, g)
           r  == [id |-> md.deviceId, threw |-> md.threw, sent |-> 0, header |-> NULL,
                  result |-> NULL, stored |-> md.stored]
       IN  /\ lsDeviceId' = md.stored
           /\ callLog' = Append(callLog, logEntry("collectDeviceMetadata", NULL, r, NULL))
  /\ UNCHANGED <<envVars, authVars, routerVars, loginVars, pollerVars, confirmVars, classifierVars, tableVars>>

\* a call site that goes through the gateway
CallInvokeFunction ==
  /\ Len(callLog) < MaxCalls
  /\ \E g \in GeneratedIds, name \in GatewayFunctions, answer \in Answers :
       LET r == invokeFunction(lsAvailable, lsWritable, lsDeviceId, g, answer)
       IN  /\ lsDeviceId' = r.stored
           /\ callLog' = Append(callLog, logEntry("invokeFunction", name, r, answer))
  /\ UNCHANGED <<envVars, authVars, routerVars, loginVars, pollerVars, confirmVars, classifierVars, tableVars>>

\* loadCompanies / loadProfileDetails: supabase.functions.invoke(name)
CallFunctionsDirectly ==
  /\ Len(callLog) < MaxCalls
  /\ \E name \in DirectFunctions :
       LET r == [id |-> NULL, threw |-> FALSE, sent |-> 1, header |-> NULL, result |-> "data",
                 stored |-> lsDeviceId]
       IN  callLog' = Append(callLog, logEntry("supabase.functions.invoke", name, r, "data"))
  /\ UNCHANGED <<envVars, lsDeviceId, authVars, routerVars, loginVars, pollerVars, confirmVars,
                 classifierVars, tableVars>>

\* the browser starts or stops accepting localStorage writes
StorageQuotaChanges ==
  /\ lsAvailable
  /\ lsWritable' = ~lsWritable
  /\ UNCHANGED <<lsAvailable, umRole, amRole, lsDeviceId, authVars, routerVars, loginVars,
                 pollerVars, otherVars>>

InitDevice ==
  /\ lsAvailable \in BOOLEAN
  /\ lsWritable \in BOOLEAN
  /\ lsDeviceId \in StoredIds
  /\ umRole = NULL
  /\ amRole = NULL
  /\ supaSession = NULL
  /\ authQueue = <<>>
  /\ getSessionPending = FALSE
  /\ ctxSession = NULL
  /\ ctxLoading = FALSE
  /\ route = "/"
  /\ locState = NoState
  /\ LoginIdle
  /\ PollerIdle
  /\ OtherIdle

NextDevice ==
  \/ CallEnsureDeviceId
  \/ CallGetDeviceId
  \/ CallCollectDeviceMetadata
  \/ CallInvokeFunction
  \/ CallFunctionsDirectly
  \/ StorageQuotaChanges

SpecDevice == InitDevice /\ [][NextDevice]_vars

(***************************************************************************)
(* Claims about the device store and the gateway.                         *)
(***************************************************************************)
\* calls in which ensureDeviceId ran and returned
EnsureReturned ==
  {i \in 1..Len(callLog) :
     /\ callLog[i].fn \in {"ensureDeviceId", "collectDeviceMetadata", "invokeFunction"}
     /\ ~callLog[i].threw}

\* C14: in one storage context every ensureDeviceId call, direct or inside
\* collectDeviceMetadata or invokeFunction, returns the identifier the first
\* one returned, getDeviceId returns nothing else, and a stored identifier is
\* never replaced.
C14_EnsureIdempotent ==
  /\ [] /\ \A i, j \in EnsureReturned : callLog[i].id = callLog[j].id
        /\ \A i \in EnsureReturned : \A k \in 1..Len(callLog) :
             (callLog[k].fn = "getDeviceId" /\ callLog[k].id # NULL) => callLog[k].id = callLog[i].id
  /\ [][ (getDeviceId(TRUE, lsDeviceId) # NULL) => (lsDeviceId' = lsDeviceId) ]_vars

\* an identifier was created by one call and returned again by two later ones
C14_Witness ==
  /\ Len(callLog) = 3
  /\ callLog[1].fn = "ensureDeviceId"
  /\ callLog[1].before = NULL
  /\ callLog[1].id \in GeneratedIds
  /\ callLog[2].fn = "invokeFunction"
  /\ callLog[2].header = callLog[1].id
  /\ callLog[3].fn = "ensureDeviceId"
  /\ callLog[3].id = callLog[1].id
  /\ lsDeviceId = callLog[1].id

\* C15: ensureDeviceId never throws, returns null exactly when storage
\* cannot be used (absent, or the write is rejected), and getDeviceId returns
\* the stored identifier or null and leaves storage as it is.
C15_EnsureNeverThrows ==
  \A i \in 1..Len(callLog) :
    LET c == callLog[i]
        unusable == ~lsAvailable \/ (getDeviceId(TRUE, c.before) = NULL /\ ~c.writable)
    IN  /\ c.fn = "ensureDeviceId" => (~c.threw /\ (c.id = NULL <=> unusable))
        /\ c.fn = "getDeviceId" =>
             /\ ~c.threw
             /\ c.after = c.before
             /\ c.id = (IF lsAvailable /\ c.before # NULL /\ c.before \notin BlankStrings
                        THEN c.before ELSE NULL)

\* C19: every invokeFunction call dispatches exactly one request, returns
\* the backend's result unchanged, and sends the X-Client-Device-Id header
\* with the stored identifier when one exists and no header when none can be
\* established.
C19_GatewayPassThrough ==
  \A i \in 1..Len(callLog) :
    LET c == callLog[i]
    IN  c.fn = "invokeFunction" =>
          /\ c.sent = 1
          /\ c.result = c.answer
          /\ c.header = getDeviceId(lsAvailable, c.after)
          /\ lsAvailable => c.header # NULL

\* C20: every request to a backend function is dispatched by invokeFunction,
\* so that it carries the device identifier whenever one is stored.
C20_AllCallsThroughGateway ==
  \A i \in 1..Len(callLog) :
    LET c == callLog[i]
    IN  c.sent > 0 =>
          /\ c.fn = "invokeFunction"
          /\ getDeviceId(lsAvailable, c.after) # NULL => c.header = getDeviceId(lsAvailable, c.after)

(***************************************************************************)
(* A caller of the rate-limit classifier.                                 *)
(***************************************************************************)
\* error.response: absent, or a Response with or without the Retry-After
\* header (its value as characters, <<>> the empty value) and with a body
\* that is JSON or not, with or without a retryAfterSeconds field
ErrorResponses ==
  {NoResponse}
    \cup {[present |-> TRUE, hasHeader |-> FALSE, header |-> <<>>,
           body |-> [isObject |-> o, error |-> m, retryAfterSeconds |-> f]] :
            o \in BOOLEAN, m \in {NULL, "Limite excedido."}, f \in {JsUndefined, JsNum(30)}}
    \cup {[present |-> TRUE, hasHeader |-> TRUE, header |-> h,
           body |-> [isObject |-> TRUE, error |-> NULL, retryAfterSeconds |-> f]] :
            h \in {<<>>, <<"0">>, <<"1">>, <<"4", "5">>, <<"6", "0">>, <<"6", "1">>,
                    <<"9", "0">>, <<"1", "2", "0">>, <<"-", "5">>, <<"a", "b">>},
            f \in {JsUndefined, JsNum(30), JsTenths(15), JsNum(0 - 3), JsNaN, JsInfinity, JsText}}

\* error.details: absent, an object, or a string that is blank, not JSON, or
\* JSON
ErrorDetails ==
  {NoDetails}
    \cup {[isString |-> FALSE, blank |-> FALSE, parses |-> FALSE,
           parsed |-> [isObject |-> TRUE, retryAfterSeconds |-> f]] :
            f \in {JsUndefined, JsNum(120), JsNum(0 - 1)}}
    \cup {[isString |-> TRUE, blank |-> b, parses |-> ok,
           parsed |-> [isObject |-> ok, retryAfterSeconds |-> IF ok THEN JsNum(20) ELSE JsUndefined]] :
            b \in BOOLEAN, ok \in BOOLEAN}

\* errors handed to toRateLimitError
ClassifierInputs ==
  {NoError}
    \cup {[isNull |-> FALSE, status |-> st, message |-> m, response |-> rs, details |-> dt] :
            st \in {429}, m \in {NULL, "Edge Function returned a non-2xx status code"},
            rs \in ErrorResponses, dt \in ErrorDetails}
    \cup {[isNull |-> FALSE, status |-> st, message |-> "Falha interna", response |-> rs,
           details |-> NoDetails] :
            st \in {500, NoStatus}, rs \in ErrorResponses}

\* const rateLimitError = await toRateLimitError(error)
Classify ==
  /\ rlStage = "input"
  /\ rlSignal' = toRateLimitError(rlError)
  /\ rlStage' = "classified"
  /\ UNCHANGED <<envVars, lsDeviceId, authVars, routerVars, loginVars, pollerVars, confirmVars,
                 callLog, tableVars, rlError, rlText>>

\* if (rateLimitError) setError(formatRateLimitError(rateLimitError, base))
Format ==
  /\ rlStage = "classified"
  /\ rlSignal.isRateLimit
  /\ rlText' = formatRateLimitError(rlSignal, MsgCheckBase)
  /\ rlStage' = "formatted"
  /\ UNCHANGED <<envVars, lsDeviceId, authVars, routerVars, loginVars, pollerVars, confirmVars,
                 callLog, tableVars, rlError, rlSignal>>

InitClassifier ==
  /\ lsAvailable = TRUE
  /\ lsWritable = TRUE
  /\ lsDeviceId = NULL
  /\ umRole = NULL
  /\ amRole = NULL
  /\ supaSession = NULL
  /\ authQueue = <<>>
  /\ getSessionPending = FALSE
  /\ ctxSession = NULL
  /\ ctxLoading = FALSE
  /\ route = "/"
  /\ locState = NoState
  /\ LoginIdle
  /\ PollerIdle
  /\ ConfirmIdle
  /\ callLog = <<>>
  /\ TableIdle
  /\ rlError \in ClassifierInputs
  /\ rlStage = "input"
  /\ rlSignal = NoRateLimit
  /\ rlText = NULL

NextClassifier ==
  \/ Classify
  \/ Format

SpecClassifier == InitClassifier /\ [][NextClassifier]_vars

(***************************************************************************)
(* Claims about the rate-limit classifier.                                *)
(***************************************************************************)
\* a parseable non-negative number
ValidNumber(x) == x.t = "number" /\ x.v10 >= 0

\* what each of the three sources of the error provides
HeaderNumber ==
  IF rlError.response.present /\ rlError.response.hasHeader /\ rlError.response.header # <<>>
  THEN ParseInt(rlError.response.header) ELSE JsUndefined

BodyNumber ==
  IF rlError.response.present /\ rlError.response.body.isObject
  THEN rlError.response.body.retryAfterSeconds ELSE JsUndefined

DetailsNumber ==
  IF rlError.details.isString /\ (rlError.details.blank \/ ~rlError.details.parses)
  THEN JsUndefined
  ELSE IF rlError.details.parsed.isObject THEN rlError.details.parsed.retryAfterSeconds
  ELSE JsUndefined

\* C16: toRateLimitError returns null for a null error and for every status
\* other than 429; for 429 it returns a signal whose retryAfterSeconds is a
\* non-negative integer when one of the three sources provides a valid
\* non-negative number, and undefined when none does.
C16_ClassifyResult ==
  rlStage # "input" =>
    IF rlError.isNull \/ rlError.status # 429
    THEN rlSignal = NoRateLimit
    ELSE /\ rlSignal.isRateLimit
         /\ IF ValidNumber(HeaderNumber) \/ ValidNumber(BodyNumber) \/ ValidNumber(DetailsNumber)
            THEN /\ rlSignal.retryAfterSeconds.t = "number"
                 /\ rlSignal.retryAfterSeconds.v10 >= 0
                 /\ rlSignal.retryAfterSeconds.v10 % 10 = 0
            ELSE rlSignal.retryAfterSeconds = JsUndefined

\* the first of header, body field and details field that is a valid
\* non-negative number, as whole seconds
FirstValidSource ==
  LET pick == IF ValidNumber(HeaderNumber) THEN HeaderNumber
              ELSE IF ValidNumber(BodyNumber) THEN BodyNumber
              ELSE IF ValidNumber(DetailsNumber) THEN DetailsNumber
              ELSE JsUndefined
  IN  IF pick.t = "number" THEN JsNum(MathRound(pick.v10)) ELSE JsUndefined

\* C17: for a 429 error the duration is the value of the first source, in
\* the order header, body field, details field, that is a valid non-negative
\* number; an unparseable or invalid source is skipped without raising.
C17_FirstValidSourceWins ==
  (rlStage # "input" /\ ~rlError.isNull /\ rlError.status = 429) =>
     rlSignal.retryAfterSeconds = FirstValidSource

\* the sentence's first part: the signal's own message, or the base message
ExpectedPrefix ==
  IF rlSignal.message # DEFAULT_RATE_LIMIT_MESSAGE THEN rlSignal.message ELSE MsgCheckBase

\* d seconds as minutes and seconds, each term singular exactly for 1, the
\* minutes term left out when zero, the seconds term when zero and d > 0
ExpectedDuration(d) ==
  LET m  == d \div 60
      sc == d % 60
      mt == ToString(m) \o (IF m = 1 THEN " minuto" ELSE " minutos")
      st == ToString(sc) \o (IF sc = 1 THEN " segundo" ELSE " segundos")
  IN  IF m = 0 THEN st
      ELSE IF sc = 0 THEN mt
      ELSE mt \o " e " \o st

\* C18 as stated: every defined duration d, zero included, is rendered as
\* try-again-in-<duration>, and only an undefined duration gives the
\* try-again-shortly sentence.
C18_FormatAnyDuration ==
  rlStage = "formatted" =>
    rlText = IF rlSignal.retryAfterSeconds.t = "undefined"
             THEN ExpectedPrefix \o " Tente novamente em instantes."
             ELSE ExpectedPrefix \o " Tente novamente em "
                    \o ExpectedDuration(rlSignal.retryAfterSeconds.v10 \div 10) \o "."

\* C18: a duration d >= 1 is rendered as try-again-in-<duration> with
\* minutes = d div 60 and seconds = d mod 60, a zero term left out and each
\* unit singular exactly for 1; an undefined or zero duration gives the
\* try-again-shortly sentence.
C18_FormatPositiveDuration ==
  rlStage = "formatted" =>
    rlText = IF rlSignal.retryAfterSeconds.t = "undefined" \/ rlSignal.retryAfterSeconds.v10 = 0
             THEN ExpectedPrefix \o " Tente novamente em instantes."
             ELSE ExpectedPrefix \o " Tente novamente em "
                    \o ExpectedDuration(rlSignal.retryAfterSeconds.v10 \div 10) \o "."

\* a 429 with Retry-After: 90 formatted as one minute and thirty seconds
C18_Witness ==
  /\ rlStage = "formatted"
  /\ rlSignal.retryAfterSeconds = JsNum(90)
  /\ rlText = "Muitas verificacoes em sequencia. Tente novamente em 1 minuto e 30 segundos."

(***************************************************************************)
(* A caller of filterAndSortRows.                                         *)
(***************************************************************************)
\* longest rows array handed to filterAndSortRows
MaxRows == 3

\* the row objects the rows array refers to
SampleRows ==
  <<[name |-> Cell("string", <<"B", "i", "a">>, 0, FALSE), total |-> Cell("number", <<>>, 10, FALSE),
     paused |-> Cell("boolean", <<>>, 0, FALSE)],
    [name |-> Cell("string", <<"a", "n", "a">>, 0, FALSE), total |-> NullCell,
     paused |-> Cell("string", <<"s", "i", "m">>, 0, FALSE)],
    [name |-> Cell("string", <<"A", "n", "a">>, 0, FALSE), total |-> Cell("number", <<>>, 5, FALSE),
     paused |-> Cell("boolean", <<>>, 0, FALSE)]>>

\* visibleColumns, toggleColumnKey and options of a call
TableArgs ==
  [visibleColumns  : {<<[key |-> "name", is_toggle |-> FALSE]>>,
                      <<[key |-> "name", is_toggle |-> FALSE],
                        [key |-> "total", is_toggle |-> FALSE],
                        [key |-> "paused", is_toggle |-> TRUE]>>},
   toggleColumnKey : {NULL, "paused"},
   options         : [searchTerm    : {<<>>, <<" ">>, <<"A", "n">>, <<"1", "0">>, <<"a", "t", "i">>},
                      statusFilter  : {"all", "active", "inactive"},
                      sortKey       : {NULL, "name", "total", "paused"},
                      sortDirection : {"asc", "desc"}]]

\* const filteredRows = filterAndSortRows(rows, visibleColumns, toggleColumnKey, options, deps)
CallFilterAndSortRows ==
  /\ ~tblResult.returned
  /\ LET r == filterAndSortRows(tblRows, tblObjects, tblArgs.visibleColumns,
                                tblArgs.toggleColumnKey, tblArgs.options)
     IN  /\ tblRows' = r.rows
         /\ tblObjects' = r.objects
         /\ tblResult' = [returned |-> TRUE, rows |-> r.result, sameArray |-> r.sameArray]
  /\ UNCHANGED <<envVars, lsDeviceId, authVars, routerVars, loginVars, pollerVars, confirmVars,
                 callLog, classifierVars, tblArgs>>

InitTable ==
  /\ lsAvailable = TRUE
  /\ lsWritable = TRUE
  /\ lsDeviceId = NULL
  /\ umRole = NULL
  /\ amRole = NULL
  /\ supaSession = NULL
  /\ authQueue = <<>>
  /\ getSessionPending = FALSE
  /\ ctxSession = NULL
  /\ ctxLoading = FALSE
  /\ route = "/"
  /\ locState = NoState
  /\ LoginIdle
  /\ PollerIdle
  /\ ConfirmIdle
  /\ callLog = <<>>
  /\ ClassifierIdle
  /\ tblRows \in UNION {[1..n -> 1..3] : n \in 0..MaxRows}
  /\ tblObjects = SampleRows
  /\ tblArgs \in TableArgs
  /\ tblResult = NoResult

NextTable == CallFilterAndSortRows

SpecTable == InitTable /\ [][NextTable]_vars

(***************************************************************************)
(* Claim about filterAndSortRows.                                         *)
(***************************************************************************)
\* C21: a call of filterAndSortRows leaves the rows array and every row
\* object as they were, and returns an array other than the rows array,
\* each element of which is a row of the input.
C21_FilterAndSortKeepsInput ==
  [][ (tblResult'.returned /\ ~tblResult.returned) =>
        (/\ tblRows' = tblRows
         /\ tblObjects' = tblObjects
         /\ ~tblResult'.sameArray
         /\ \A i \in 1..Len(tblResult'.rows) :
              \E j \in 1..Len(tblRows) : tblRows[j] = tblResult'.rows[i]) ]_vars

\* the active rows of three were returned sorted by name: a result that has
\* fewer rows than the input, in another order
C21_Witness ==
  /\ tblResult.returned
  /\ tblRows = <<1, 2, 3>>
  /\ tblResult.rows = <<3, 1>>

(***************************************************************************)
(* Claims about teardown, interleaving and resend on the verification     *)
(* screen.                                                                *)
(***************************************************************************)
\* C22: once the verification screen is torn down, the completion of a check
\* or resend that was in flight and the pending redirect timer change none
\* of the screen's state and cause no navigation.
C22_TeardownAbandonsWork ==
  [][ (dvMounted = "torn") =>
        (/\ pollerNavs' = pollerNavs
         /\ <<dvStatus, dvError, dvInfo, dvResendLoading>>' =
              <<dvStatus, dvError, dvInfo, dvResendLoading>>) ]_vars

\* what a completed timer-driven check shows when its response alone decides:
\* the status it reports, the error it carries if any, and a timer that runs
\* exactly while the status is pending
ShowsOnly(r) ==
  IF r.outcome = "data"
  THEN /\ dvStatus' = r.status
       /\ dvError' = (IF r.status = "unregistered" THEN MsgUnregisteredDevice ELSE NULL)
       /\ (intervals' # {}) = (r.status = "pending")
  ELSE /\ dvError' # NULL
       /\ intervals' # {}

\* C23: when a status check completes on the mounted screen (entered with the
\* device id of the hand-off, so that entry itself showed no error), the
\* status, the error message and whether the timer runs are those of that
\* response alone, whatever earlier responses left behind.
C23_LastResponseDeterminesState ==
  [][ \A r \in inflight :
        (/\ inflight' = inflight \ {r}
         /\ dvMounted = "yes"
         /\ locState.deviceId # NULL
         /\ r.by # "resend") => ShowsOnly(r) ]_vars

\* the resend requests dispatched, and completed, by a step
ResendsStarted == {r \in inflight' : r.by = "resend" /\ ~\E q \in inflight : q.id = r.id}

ResendsCompleted == {r \in inflight : r.by = "resend" /\ ~\E q \in inflight' : q.id = r.id}

\* an error-free response that does not report approved
OnlyInforms(r) == r.outcome # "error" /\ ~(r.outcome = "data" /\ r.status = "approved")

\* the call of a resend: one request, with the poller's deviceId and resend
ResendCallsOnce ==
  /\ Len(checkLog') = Len(checkLog) + 1
  /\ checkLog'[Len(checkLog')].deviceId = dvDeviceId
  /\ checkLog'[Len(checkLog')].resend = TRUE

\* what the completion of a resend does on the mounted screen
ResendCompletion(r) ==
  /\ checkLog' = checkLog
  /\ IF r.outcome = "data" /\ r.status = "approved"
     THEN /\ dvStatus' = "approved"
          /\ intervals' = {}
          /\ redirectTimers' = redirectTimers + 1
     ELSE /\ dvStatus' = dvStatus
          /\ intervals' = intervals
          /\ redirectTimers' = redirectTimers
          /\ OnlyInforms(r) => (dvInfo' = MsgResent /\ dvError' = dvError)

\* C24 as stated: a resend makes one call with the poller's deviceId and
\* resend = true; an approved response stops polling and schedules the
\* navigation; for any other error-free response the resend changes the
\* informational message and nothing else: not the status, not the interval,
\* not the error message.
C24_ResendOnlyInforms ==
  [][ /\ \A r \in ResendsStarted :
           /\ ResendCallsOnce
           /\ OnlyInforms(r) => <<dvStatus, dvError, dvInfo, intervals>>' =
                                  <<dvStatus, dvError, dvInfo, intervals>>
      /\ \A r \in ResendsCompleted : dvMounted = "yes" => ResendCompletion(r) ]_vars

\* C24: a resend makes one call with the poller's deviceId and resend = true
\* and clears the displayed error message when it starts; an approved response
\* stops polling and schedules the navigation; any other error-free response
\* sets the informational message and leaves the status, the error message
\* and the interval as they are.
C24_ResendClearsErrorThenInforms ==
  [][ /\ \A r \in ResendsStarted :
           /\ ResendCallsOnce
           /\ dvError' = NULL
           /\ <<dvStatus, dvInfo, intervals>>' = <<dvStatus, dvInfo, intervals>>
      /\ \A r \in ResendsCompleted : dvMounted = "yes" => ResendCompletion(r) ]_vars

\* a resend answered pending has completed: the new message is shown, the
\* status is still pending and the interval still runs
C24_Witness ==
  /\ dvMounted = "yes"
  /\ \E i \in 1..Len(checkLog) : checkLog[i].resend
  /\ dvInfo = MsgResent
  /\ dvStatus = "pending"
  /\ intervals # {}
  /\ ~dvResendLoading

(***************************************************************************)
(* Claim about the order of the steps of a login attempt.                 *)
(***************************************************************************)
\* C25: the steps of an attempt come in the order authenticate, collect
\* device, report login, decide: the device is collected only after the
\* sign-in succeeded, registerLoginEvent is requested at most once and only
\* with the collected, non-null device id, a decision or an error of it is
\* received only after the request, and navigation only after a decision;
\* an attempt that ended on a credential failure shows the provider's message
\* (the fixed text when it has none) and has collected nothing, requested
\* nothing, signed out nothing and navigated nowhere.
C25_LoginStepsInOrder ==
  /\ Len(registerCalls) <= 1
  /\ deviceMetadata.collected => authOk
  /\ registerCalls # <<>> =>
       /\ authOk
       /\ deviceMetadata.collected
       /\ deviceMetadata.deviceId # NULL
       /\ registerCalls[1].deviceId = deviceMetadata.deviceId
  /\ (pc \in {"register", "classify"} \/ decision.received \/ securityError # NoError) =>
       registerCalls # <<>>
  /\ loginNavs # <<>> => decision.received
  /\ (pc = "done" /\ ~authOk) =>
       /\ errorMsg \in {MsgInvalidCredentials, MsgLoginFallback}
       /\ ~deviceMetadata.collected
       /\ registerCalls = <<>>
       /\ signOutCalls = 0
       /\ loginNavs = <<>>

\* an attempt ran through all four steps
C25_Witness ==
  /\ pc = "done"
  /\ authOk
  /\ deviceMetadata.collected
  /\ Len(registerCalls) = 1
  /\ decision.received
  /\ Len(loginNavs) = 1

(***************************************************************************)
(* Claims about entry without a device id and about logout.               *)
(***************************************************************************)
\* C26: on a verification screen entered without a device id (no hand-off
\* and no storage, so that ensureDeviceId returns null) the poller shows the
\* cannot-identify error, has created no interval and has made no
\* checkDeviceStatus call, by timer or by resend.
C26_NoDeviceIdNoPolling ==
  (dvMounted # "no" /\ ~lsAvailable) =>
     /\ dvDeviceId = NULL
     /\ dvError = MsgCannotIdentify
     /\ timersCreated = 0
     /\ intervals = {}
     /\ checkLog = <<>>
     /\ inflight = {}
     /\ ~dvResendLoading

\* the screen is on display without a device id
C26_Witness ==
  /\ dvMounted = "yes"
  /\ ~lsAvailable
  /\ locState.deviceId = NULL
  /\ dvDeviceId = NULL
  /\ dvError = MsgCannotIdentify

\* the step in which handleLogout resumes after its sign-out
LogoutResumes == dvLogoutPending /\ ~dvLogoutPending'

\* C27: when handleLogout navigates to /login no interval is left running,
\* and once the screen is gone no interval runs and no timer-driven check is
\* started.
C27_LogoutCancelsInterval ==
  /\ [][ LogoutResumes => (route' = "/login" /\ intervals' = {} /\ pollTimerRef' = 0) ]_vars
  /\ [](dvMounted = "torn" => intervals = {})
  /\ [][ (dvMounted = "torn") => ~TimerCheckStarted ]_vars

\* the user logged out while the interval was running and a check was in
\* flight: the screen is gone, the route is /login
C27_Witness ==
  /\ dvMounted = "torn"
  /\ route = "/login"
  /\ supaSession = NULL
  /\ timersCreated = 1
  /\ intervals = {}
  /\ inflight # {}

(***************************************************************************)
(* Claim about teardown of the confirmation link handler.                 *)
(***************************************************************************)
\* C28: once the confirmation handler is torn down, its status and message
\* no longer change and it navigates nowhere, whether the confirmDevice call,
\* the classification of its error or the redirect delay was pending.
C28_ConfirmTeardownIsFinal ==
  [][ (cfMounted = "torn") =>
        (cfNavs' = cfNavs /\ cfStatus' = cfStatus /\ cfMessage' = cfMessage) ]_vars

(***************************************************************************)
(* Claim about failures on the verification screen.                       *)
(***************************************************************************)
\* C29: a failure of a device-store access made on entry of the verification
\* screen is caught by the screen and shown as its error: no effect of the
\* page ends in an uncaught exception.
C29_EntryFailureIsCaught ==
  dvMounted # "no" => (~dvCrashed /\ (dvDeviceId = NULL => dvError # NULL))

(***************************************************************************)
(* Claim about the device id across the flow.                             *)
(***************************************************************************)
\* the device ids sent or handed over so far: body and header of the
\* registerLoginEvent requests, the hand-off state, the poller's deviceId,
\* body and header of the checkDeviceStatus requests
DeviceIdsInUse ==
  UNION {{registerCalls[i].deviceId, registerCalls[i].header} : i \in 1..Len(registerCalls)}
    \cup UNION {{loginNavs[i].state.deviceId} \ {NULL} : i \in 1..Len(loginNavs)}
    \cup ({dvDeviceId} \ {NULL})
    \cup UNION {{checkLog[i].deviceId, checkLog[i].header} : i \in 1..Len(checkLog)}

\* C30: in one browser profile the deviceId of the registerLoginEvent body,
\* the deviceId of the hand-off state, the deviceId of every
\* checkDeviceStatus body (poll and resend) and the X-Client-Device-Id header
\* of those requests are one value: the stored device id.
C30_OneDeviceIdEverywhere ==
  \A id \in DeviceIdsInUse : id # NULL /\ id = lsDeviceId

\* after a login that handed over to the verification screen, the entry
\* check and a resend have been sent
C30_Witness ==
  /\ Len(registerCalls) = 1
  /\ \E i \in 1..Len(loginNavs) : loginNavs[i].state.deviceId # NULL
  /\ \E i \in 1..Len(checkLog) : checkLog[i].by = "entry"
  /\ \E i \in 1..Len(checkLog) : checkLog[i].by = "resend"

====
